---- MODULE Spec2Model ----
(***************************************************************************)
(* SERPAVI scraper: the POST "/" handler of src/unnamed/part_000 (Express  *)
(* + Playwright) as a state machine.  Every request r owns its handler     *)
(* frame (the locals browser, ctx, page, target), the promise `work`, the  *)
(* orphanable call gotoSerpavi(ctx) and the two timers of the two          *)
(* Promise.race calls.  Time is kept per request in milliseconds from the  *)
(* moment the races are armed; an awaited call that carries a timeout in   *)
(* the source settles at once or when that timeout expires, an awaited     *)
(* call that carries none settles at once or never.                        *)
(***************************************************************************)
EXTENDS Integers, Sequences, FiniteSets, TLC

VARIABLES
  req,        \* req[r]: the JSON body of request r (rc, etiqueta, estado, planta)
  pc,         \* pc[r]: position of the handler of request r
  resp,       \* resp[r]: the response sent for r (status 0: none yet)
  sent,       \* sent[r]: number of res.json calls made for r
  stalled,    \* stalled[r]: the await the request is parked on never settles
  sessions,   \* the browser processes chromium.launch has started, by id
  browser,    \* browser[r]: the handler's local `browser` (0: not assigned)
  ctx,        \* ctx[r]: the handler's local `ctx` (0: not assigned)
  uses,       \* <<r, id>>: request r has driven the browser session id
  wk,         \* wk[r]: position of the async function `work`
  nav,        \* nav[r]: position of gotoSerpavi(ctx)
  page,       \* page[r]: the page opened by ctx.newPage()
  popup,      \* popup[r]: the page spawned by the landing-page click, if any
  link,       \* link[r]: link.count() of the landing-page anchor
  loads,      \* loads[r]: the page.goto calls issued so far, in order
  ret,        \* ret[r]: what gotoSerpavi returned ({page, target})
  searched,   \* searched[r]: the target searchByRC was invoked on
  now,        \* now[r]: ms elapsed since the races of r were armed
  due,        \* due[r]: time at which the pending await of r settles
  navT,       \* navT[r]: the 25 s timer of ensureSerpaviContext
  globT,      \* globT[r]: the 40 s timer of the handler's race
  scope,      \* "single": one request, durations kept; "concurrent": see
              \* InitConc, durations kept; "extract": see InitExtract;
              \* "search": see InitSearch; "fill": see InitFill; "route":
              \* see InitRoute
  searchBox,  \* searchBox[r]: what searchByRC found of its input, and did to it
  okSearch,   \* okSearch[r]: the local `okSearch` of `work`
  sugg,       \* sugg[r]: the options searchByRC found under the panel, and
              \* what it did with them (lines 223-236)
  form,       \* form[r]: the form the attribute filler met, as its number in
              \* Forms (0: the filler has not run), the call that fails
              \* during its run, and the line k of lines 366-376 and the
              \* await j of its helper the filler is at (lines 364-376);
              \* j is 0 once the filler is left, with k the line whose
              \* helper threw, 0 when none did
  net,        \* net[r]: the network requests the handler of ctx.route was
              \* given, each with the decision taken (lines 338-345)
  dom,        \* dom[r]: the result page shown once line 388 settled, as its
              \* number in Pages (0: none yet)
  acc,        \* acc[r]: the locals min, max, precio_ref, psqm of lines
              \* 398-414, the index i of the anchor the loop is at, and the
              \* results rs of extractRangeAndRef so far: for the anchors
              \* before i and then for the whole body.  They stay as `work`
              \* left them
  left,       \* what the last call of pickRangeFromText, of whatever
              \* request, ended with: the contents of its array nums
              \* (line 42) and lastIndex of its expression rx (line 43)
  aw          \* aw[r]: the call that searchByRC, the diagnostics, the filler,
              \* the calculation trigger or the extraction is awaiting for r
              \* ("none" in the navigator and between the steps), and the
              \* pace: whether the calls with a timeout use up their timeouts

vars == <<req, pc, resp, sent, stalled, sessions, browser, ctx, uses, wk, nav,
          page, popup, link, loads, ret, searched, now, due, navT, globT,
          scope, searchBox, okSearch, sugg, form, net, dom, acc, left, aw>>

handlerVars == <<pc, resp, sent>>
sessionVars == <<sessions, browser, ctx>>
navVars == <<nav, page, popup, link, loads, ret>>
timerVars == <<navT, globT>>
searchVars == <<searchBox, okSearch, sugg>>
formVars == <<form, net>>
extractVars == <<dom, acc, left>>

-----------------------------------------------------------------------------
(* Bounds of the model *)

NumReqs == 2

Reqs == 1..NumReqs

-----------------------------------------------------------------------------
(* JavaScript values of the request body *)

Undef == [t |-> "undefined", s |-> <<>>, n |-> 0]
Null == [t |-> "null", s |-> <<>>, n |-> 0]
Str(s) == [t |-> "string", s |-> s, n |-> 0]
Num(n) == [t |-> "number", s |-> <<>>, n |-> n]
Bool(b) == [t |-> "boolean", s |-> <<>>, n |-> IF b THEN 1 ELSE 0]

\* !!v
Truthy(v) ==
  CASE v.t = "undefined" -> FALSE
    [] v.t = "null" -> FALSE
    [] v.t = "string" -> Len(v.s) > 0
    [] v.t = "number" -> v.n # 0
    [] v.t = "boolean" -> v.n # 0

DigitChar(d) == <<"0", "1", "2", "3", "4", "5", "6", "7", "8", "9">>[d + 1]

RECURSIVE Digits(_)
Digits(n) == IF n < 10 THEN <<DigitChar(n)>>
             ELSE Append(Digits(n \div 10), DigitChar(n % 10))

\* String(v), as a sequence of characters
ToStr(v) ==
  CASE v.t = "undefined" -> <<"u", "n", "d", "e", "f", "i", "n", "e", "d">>
    [] v.t = "null" -> <<"n", "u", "l", "l">>
    [] v.t = "string" -> v.s
    [] v.t = "number" -> Digits(v.n)
    [] v.t = "boolean" -> IF v.n # 0 THEN <<"t", "r", "u", "e">>
                          ELSE <<"f", "a", "l", "s", "e">>

\* the character c, n times
Rep(c, n) == [i \in 1..n |-> c]

-----------------------------------------------------------------------------
(* Validation of the body: part_000 lines 311-316 *)

RcLen == 20

UpperAlnum ==
  {"A", "B", "C", "D", "E", "F", "G", "H", "I", "J", "K", "L", "M", "N", "O",
   "P", "Q", "R", "S", "T", "U", "V", "W", "X", "Y", "Z",
   "0", "1", "2", "3", "4", "5", "6", "7", "8", "9"}

\* A weaker test, length only: the character class dropped
RcRegexLengthOnly(s) == Len(s) = RcLen

\* /^[A-Z0-9]{20}$/.test(s)
RcRegex(s) == Len(s) = RcLen /\ \A i \in 1..Len(s) : s[i] \in UpperAlnum

\* the negation of the guard of line 311
RcAccepted(rc) == Truthy(rc) /\ RcRegex(ToStr(rc))

\* the guard of line 314
FaltanCampos(b) ==
  \/ ~Truthy(b.etiqueta)
  \/ ~Truthy(b.estado)
  \/ b.planta.t = "undefined"
  \/ b.planta.t = "null"
  \/ ToStr(b.planta) = <<>>

Mandatory == <<"etiqueta", "estado", "planta">>

\* the filter of line 315: k is kept when !(v[k] && String(v[k]).length)
NeedsListed(v) == ~(Truthy(v) /\ Len(ToStr(v)) > 0)

Needs(b) == SelectSeq(Mandatory, LAMBDA k : NeedsListed(b[k]))

-----------------------------------------------------------------------------
(* Numbers and texts of the extraction: part_000 lines 34-105 *)

\* null, and the finite decimal m / 10^e (a JavaScript number read from digits)
NullV == [null |-> TRUE, m |-> 0, e |-> 0]

RECURSIVE Dec(_, _)
Dec(m, e) ==
  IF e > 0 /\ m % 10 = 0 THEN Dec(m \div 10, e - 1)
  ELSE [null |-> FALSE, m |-> m, e |-> e]

Whole(n) == Dec(n, 0)

RECURSIVE Pow10(_)
Pow10(k) == IF k = 0 THEN 1 ELSE 10 * Pow10(k - 1)

\* x < y and x <= y on numbers
Lt(x, y) == x.m * Pow10(y.e) < y.m * Pow10(x.e)
Le(x, y) == x.m * Pow10(y.e) <= y.m * Pow10(x.e)

\* A text is a sequence of characters, each a string.  The characters that
\* have no escape in a string are written by name: "EUR" is the euro sign,
\* "SUP2" the superscript two, "a'" "e'" "i'" "o'" "u'" and "A'" "E'" "I'"
\* "O'" "U'" the vowels with an acute accent, "u:" and "U:" the u with a
\* diaeresis, "n~" and "N~" the n with a tilde, "SZ" the sharp s U+00DF,
\* "EN-DASH" and "EM-DASH" the two long dashes, "VT" the vertical tab, "NBSP"
\* the no-break space U+00A0, "BOM" U+FEFF, "LS" and "PS" the line and
\* paragraph separators U+2028 and U+2029, and "U+1680", "U+2000" to
\* "U+200A", "U+202F", "U+205F", "U+3000" the other spaces of Unicode
DigitChars == {"0", "1", "2", "3", "4", "5", "6", "7", "8", "9"}
IsDigit(c) == c \in DigitChars
\* [\d\.\,]
IsNumCh(c) == c \in DigitChars \cup {".", ","}
\* the white space and the line terminators of ECMAScript
SpaceChars ==
  {" ", "\t", "\n", "\r", "\f", "VT", "NBSP", "BOM", "LS", "PS", "U+1680",
   "U+2000", "U+2001", "U+2002", "U+2003", "U+2004", "U+2005", "U+2006",
   "U+2007", "U+2008", "U+2009", "U+200A", "U+202F", "U+205F", "U+3000"}
\* \s
IsSpace(c) == c \in SpaceChars

DigitVal(c) == CHOOSE d \in 0..9 : DigitChar(d) = c

\* the letters of the texts and of the bodies explored that have two cases,
\* each under its other case
UpperLetters ==
  <<"A", "B", "C", "D", "E", "F", "G", "H", "I", "J", "K", "L", "M", "N", "O",
    "P", "Q", "R", "S", "T", "U", "V", "W", "X", "Y", "Z", "A'", "E'", "I'",
    "O'", "U'", "U:", "N~">>
LowerLetters ==
  <<"a", "b", "c", "d", "e", "f", "g", "h", "i", "j", "k", "l", "m", "n", "o",
    "p", "q", "r", "s", "t", "u", "v", "w", "x", "y", "z", "a'", "e'", "i'",
    "o'", "u'", "u:", "n~">>

\* the flag i of the patterns: letters are compared without their case
LowerCh(c) ==
  IF \E i \in 1..Len(UpperLetters) : UpperLetters[i] = c
  THEN LowerLetters[CHOOSE i \in 1..Len(UpperLetters) : UpperLetters[i] = c]
  ELSE c

\* the characters f[1], f[2], ... as a text
Chars(f) == SubSeq(f, 1, Len(f))

LowerOf(t) == Chars([i \in 1..Len(t) |-> LowerCh(t[i])])

MinOf(S) == CHOOSE x \in S : \A y \in S : x <= y
MaxOf(S) == CHOOSE x \in S : \A y \in S : y <= x

\* the points of the thousands left in place
KeepDots(s) == s

\* s.replace(/\./g, "")
RECURSIVE DropDots(_)
DropDots(s) ==
  IF s = <<>> THEN <<>>
  ELSE IF Head(s) = "." THEN DropDots(Tail(s))
  ELSE <<Head(s)>> \o DropDots(Tail(s))

\* the comma left in place
CommaKept(s) == s

\* s.replace(",", "."): the first comma only
CommaToPoint(s) ==
  LET cs == {i \in 1..Len(s) : s[i] = ","}
  IN IF cs = {} THEN s ELSE [s EXCEPT ![MinOf(cs)] = "."]

RECURSIVE DigitsVal(_)
DigitsVal(s) ==
  IF s = <<>> THEN 0
  ELSE 10 * DigitsVal(SubSeq(s, 1, Len(s) - 1)) + DigitVal(s[Len(s)])

\* Number(s) for s made of digits, points and commas: NaN is null here, since
\* eurToNum turns every non-finite value into null
ToNumber(s) ==
  LET ps == {i \in 1..Len(s) : s[i] = "."}
      ds == SelectSeq(s, IsDigit)
  IN IF \E i \in 1..Len(s) : ~IsDigit(s[i]) /\ s[i] # "." THEN NullV
     ELSE IF s = <<>> THEN Whole(0)
     ELSE IF Cardinality(ps) > 1 \/ ds = <<>> THEN NullV
     ELSE IF ps = {} THEN Whole(DigitsVal(ds))
     ELSE Dec(DigitsVal(ds), Len(s) - MinOf(ps))

\* eurToNum, lines 34-38
eurToNum(s) ==
  IF s = <<>> THEN NullV ELSE ToNumber(CommaToPoint(DropDots(s)))

\* String(raw || "").replace(/\s+/g, " "), line 66: of every run of white
\* space the last character stays, as a space
OneLine(t) ==
  LET dropped == {i \in 1..(Len(t) - 1) : IsSpace(t[i]) /\ IsSpace(t[i + 1])}
      before(i) == Cardinality({j \in dropped : j < i})
      at(k) == CHOOSE i \in k..(k + Cardinality(dropped)) :
                 i \notin dropped /\ i - before(i) = k
  IN Chars([k \in 1..(Len(t) - Cardinality(dropped)) |->
              IF IsSpace(t[at(k)]) THEN " " ELSE t[at(k)]])

\* the literal w stands in t at position i
LitAt(t, i, w) ==
  /\ i >= 1
  /\ i + Len(w) - 1 <= Len(t)
  /\ SubSeq(t, i, i + Len(w) - 1) = w

\* the character classes of the patterns: \s, [\d\.\,], \d and [^EUR\d]
InClass(c, class) ==
  CASE class = "\\s" -> IsSpace(c)
    [] class = "[\\d.,]" -> IsNumCh(c)
    [] class = "\\d" -> IsDigit(c)
    [] class = "[^EUR\\d]" -> c # "EUR" /\ ~IsDigit(c)

\* the position after the run of characters of the class that starts at i
RunEnd(t, i, class) ==
  LET stops == {j \in i..Len(t) : ~InClass(t[j], class)}
  IN IF stops = {} THEN Len(t) + 1 ELSE MinOf(stops)

SkipSpaces(t, i) == RunEnd(t, i, "\\s")
NumRunEnd(t, i) == RunEnd(t, i, "[\\d.,]")
DigitRunEnd(t, i) == RunEnd(t, i, "\\d")

\* The patterns are matched as the backtracking of the engine tries them: of
\* the candidates f[x] (0 or NoGroups: no match there) the one at the least x
\* for a choice tried from the left or lazily, at the greatest x for a greedy
\* one
First(f, none) ==
  LET hits == {x \in DOMAIN f : f[x] # none}
  IN IF hits = {} THEN none ELSE f[MinOf(hits)]

Last(f, none) ==
  LET hits == {x \in DOMAIN f : f[x] # none}
  IN IF hits = {} THEN none ELSE f[MaxOf(hits)]

W_eur == <<"EUR">>
W_euro == <<"e", "u", "r", "o">>
W_euros == <<"e", "u", "r", "o", "s">>

\* (?:EUR|euros?) at position q: the positions it can end at
MarkEnds(t, q) ==
  {c \in (q + 1)..(q + 5) :
     \/ c = q + 1 /\ LitAt(t, q, W_eur)
     \/ c = q + 4 /\ LitAt(t, q, W_euro)
     \/ c = q + 5 /\ LitAt(t, q, W_euros)}

\* \s*(?:EUR|euros?) from position b: the positions it can end at
CurEnds(t, b) == MarkEnds(t, SkipSpaces(t, b))

\* ([\d\.\,]+)\s*(?:EUR|euros?) with the group starting at a: the group takes
\* the whole run of its characters, since no shorter one is followed by a mark
AmountAt(t, a) ==
  /\ a >= 1 /\ a <= Len(t)
  /\ IsNumCh(t[a])
  /\ CurEnds(t, NumRunEnd(t, a)) # {}

\* the same, as the start of the group (0: no match)
AmountOr0(t, a) == IF AmountAt(t, a) THEN a ELSE 0

\* the starts the group of [^EUR\d]*([\d\.\,]+) can take from position p:
\* the prefix is greedy, so the engine tries them from the last to the first
PrefixStarts(t, p) == p..RunEnd(t, p, "[^EUR\\d]")

\* [^EUR\d]*([\d\.\,]+)\s*(?:EUR|euros?) from position p, at the end of a
\* pattern: where the group starts (0: no match)
AmountAfter(t, p) ==
  Last([a \in PrefixStarts(t, p) |-> AmountOr0(t, a)], 0)

\* the text of the group that starts at a
Group(t, a) == SubSeq(t, a, NumRunEnd(t, a) - 1)

\* eurToNum(m[k]) for the group that starts at a, null without a match
GroupValue(t, a) == IF a = 0 THEN NullV ELSE eurToNum(Group(t, a))

\* the positions where one of the literals ws (all of one length) stands
KeyStarts(t, ws) == {s \in 1..Len(t) : \E w \in ws : LitAt(t, s, w)}
KeyLen(ws) == Len(CHOOSE w \in ws : TRUE)

\* refPatterns, lines 69-73: after normalisation \s+ is one space
RefKeys ==
  <<{<<"p","r","e","c","i","o"," ","d","e"," ",
       "r","e","f","e","r","e","n","c","i","a">>},
    {<<"p","r","e","c","i","o"," ","r","e","f","e","r","e","n","c","i","a">>},
    {<<"p","r","e","c","i","o"," ","m",x,"x","i","m","o"," ","d","e"," ",
       "r","e","f","e","r","e","n","c","i","a">> : x \in {"a", "a'"}}>>

\* t.match(rx) for a pattern of refPatterns: where its group starts (0: null)
RefMatch(t, ws) ==
  First([s \in KeyStarts(t, ws) |-> AmountAfter(t, s + KeyLen(ws))], 0)

\* the loop of lines 75-78: the group of the first pattern that matches
RefGroup(t) == First([k \in 1..Len(RefKeys) |-> RefMatch(t, RefKeys[k])], 0)

W_entre == {<<"e", "n", "t", "r", "e">>}
W_minimo == {<<"m", x, "n", "i", "m", "o">> : x \in {"i", "i'"}}
W_maximo == {<<"m", x, "x", "i", "m", "o">> : x \in {"a", "a'"}}
Separators == {"a", "-", "EN-DASH", "EM-DASH"}
EntreGap == 20
MinimoGap == 30

\* the starts of the two groups of a range pattern; NoGroups: no match
NoGroups == <<0, 0>>
Groups(a1, a2) == IF a1 = 0 \/ a2 = 0 THEN NoGroups ELSE <<a1, a2>>

\* .{0,n}?([\d\.\,]+)\s*(?:EUR|euros?) from position c: the lazy gap gives
\* the first start that matches
AmountWithin(t, c, n) == First([a \in c..(c + n) |-> AmountOr0(t, a)], 0)

\* \s*(?:EUR|euros?).{0,20}?([\d\.\,]+)\s*(?:EUR|euros?) from position b1
EntreRest(t, b1) ==
  Last([c \in CurEnds(t, b1) |-> AmountWithin(t, c, EntreGap)], 0)

\* the rest of rangePatterns[0] once its first group starts at a1
EntreFrom(t, a1) ==
  IF a1 = 0 THEN NoGroups ELSE Groups(a1, EntreRest(t, NumRunEnd(t, a1)))

\* rangePatterns[0] with its key ending before p: the last start of the
\* first group from which the rest of the pattern matches
EntreAfter(t, p) ==
  Last([a \in PrefixStarts(t, p) |-> EntreFrom(t, AmountOr0(t, a))],
       NoGroups)

\* a pattern list without the pattern of line 82
RangeEntreAbsent(t) == NoGroups

\* rangePatterns[0], line 82
RangeEntre(t) ==
  First([s \in KeyStarts(t, W_entre) |->
           EntreAfter(t, s + KeyLen(W_entre))], NoGroups)

\* (?:a|-|EN-DASH|EM-DASH)\s*([\d\.\,]+)\s*(?:EUR|euros?) at position q
SepAt(t, q) ==
  IF q <= Len(t) /\ t[q] \in Separators
  THEN AmountOr0(t, SkipSpaces(t, q + 1)) ELSE 0

\* \s*(?:EUR|euros?)\s*(?:a|-|..)\s*([\d\.\,]+)\s*(?:EUR|euros?) from b1
SepRest(t, b1) ==
  Last([c \in CurEnds(t, b1) |-> SepAt(t, SkipSpaces(t, c))], 0)

\* the rest of rangePatterns[1] once its first group starts at a
SepFrom(t, a) ==
  IF a = 0 THEN NoGroups ELSE Groups(a, SepRest(t, NumRunEnd(t, a)))

\* rangePatterns[1], line 83
RangeSep(t) ==
  First([a \in 1..Len(t) |-> SepFrom(t, AmountOr0(t, a))], NoGroups)

\* m[aa']ximo[^EUR\d]*([\d\.\,]+)\s*(?:EUR|euros?) at position g
MaximoAt(t, g) ==
  IF \E w \in W_maximo : LitAt(t, g, w)
  THEN AmountAfter(t, g + KeyLen(W_maximo)) ELSE 0

\* \s*(?:EUR|euros?).{0,30}?m[aa']ximo[^EUR\d]*([\d\.\,]+)\s*(?:EUR|euros?)
MaximoRest(t, b1) ==
  Last([c \in CurEnds(t, b1) |->
          First([g \in c..(c + MinimoGap) |-> MaximoAt(t, g)], 0)], 0)

\* the rest of rangePatterns[2] once its first group starts at a1
MinimoFrom(t, a1) ==
  IF a1 = 0 THEN NoGroups ELSE Groups(a1, MaximoRest(t, NumRunEnd(t, a1)))

\* rangePatterns[2] with its key ending before p: the last start of the
\* first group from which the rest of the pattern matches
MinimoAfter(t, p) ==
  Last([a \in PrefixStarts(t, p) |-> MinimoFrom(t, AmountOr0(t, a))],
       NoGroups)

\* rangePatterns[2], line 84
RangeMinimo(t) ==
  First([s \in KeyStarts(t, W_minimo) |->
           MinimoAfter(t, s + KeyLen(W_minimo))], NoGroups)

\* the loop of lines 87-90: the groups of the first pattern that matches
RangeMatch(t) == First(<<RangeEntre(t), RangeSep(t), RangeMinimo(t)>>, NoGroups)

\* \d{2,3} from position s: the positions it can end at
HeadEnds(t, s) == {h \in {s + 2, s + 3} : DigitRunEnd(t, s) >= h}

\* (?:\.\d{3})* from position i: the positions it can end at
RECURSIVE ThousandsEnds(_, _)
ThousandsEnds(t, i) ==
  IF LitAt(t, i, <<".">>) /\ DigitRunEnd(t, i + 1) >= i + 4
  THEN {i} \cup ThousandsEnds(t, i + 4)
  ELSE {i}

\* (?:,\d{1,2})? from position i: the positions it can end at
CentsEnds(t, i) ==
  {j \in {i, i + 2, i + 3} :
     j = i \/ (LitAt(t, i, <<",">>) /\ DigitRunEnd(t, i + 1) >= j)}

\* the end b of a group, if a currency mark follows it
MarkedEnd(t, b) == IF CurEnds(t, b) # {} THEN b ELSE 0

\* the pattern of line 43 tried at position s: the end of its group (0: no
\* match); every part is greedy
TokenEnd(t, s) ==
  Last([h \in HeadEnds(t, s) |->
          Last([k \in ThousandsEnds(t, h) |->
                  Last([b \in CentsEnds(t, k) |-> MarkedEnd(t, b)], 0)], 0)], 0)

\* nums.push(v) unless v is null, line 47
Push(v, nums) == IF v.null THEN nums ELSE <<v>> \o nums

RECURSIVE TokensFrom(_, _)

\* one turn of the loop of lines 45-48: ends[s] is the end of the match tried
\* at s; the leftmost match is taken and the search goes on after it
TokensNext(t, ends) ==
  LET hits == {s \in DOMAIN ends : ends[s] # 0}
      s == MinOf(hits)
  IN IF hits = {} THEN <<>>
     ELSE Push(eurToNum(SubSeq(t, s, ends[s] - 1)),
               TokensFrom(t, MaxOf(CurEnds(t, ends[s]))))

\* the loop of lines 45-48 from lastIndex = from: the values pushed
TokensFrom(t, from) ==
  TokensNext(t, [s \in {x \in from..Len(t) : IsDigit(t[x])} |-> TokenEnd(t, s)])

\* the index of a least element of the numbers vs
LeastIndex(vs) ==
  CHOOSE i \in 1..Len(vs) : \A j \in 1..Len(vs) : Le(vs[i], vs[j])

Without(vs, i) == SubSeq(vs, 1, i - 1) \o SubSeq(vs, i + 1, Len(vs))

\* lines 49-52: the two least values, or the only one
TwoLeast(nums) ==
  IF Len(nums) >= 2
  THEN [min |-> nums[LeastIndex(nums)],
        max |-> Without(nums, LeastIndex(nums))
                  [LeastIndex(Without(nums, LeastIndex(nums)))]]
  ELSE IF Len(nums) = 1 THEN [min |-> NullV, max |-> nums[1]]
  ELSE [min |-> NullV, max |-> NullV]

\* nums.sort((a, b) => a - b), line 49
RECURSIVE Sorted(_)
Sorted(vs) ==
  IF vs = <<>> THEN <<>>
  ELSE <<vs[LeastIndex(vs)]>> \o Sorted(Without(vs, LeastIndex(vs)))

\* pickRangeFromText has not been called yet
NoCall == [nums |-> <<>>, lastIndex |-> 0]

\* an array made once, outside the function, and never emptied
NumsShared(was) == was.nums

\* line 42: `const nums = []` makes a new, empty array at every call,
\* whatever the call before ended with
NumsOfCall(was) == <<>>

\* line 43: the literal makes a new expression at every call, and lastIndex
\* of a new expression is 0
LastIndexOfCall(was) == 0

\* lines 42-49: what a call of pickRangeFromText ends with, `was` being what
\* the call before ended with and pushed the values the loop of lines 45-48
\* pushes: the array sorted, and lastIndex at 0, where the exec that
\* returns null and ends the loop sets it
LeftBy(was, pushed) ==
  [nums |-> Sorted(NumsOfCall(was) \o pushed), lastIndex |-> 0]

\* pickRangeFromText, lines 41-53, as the first call
pickRangeFromText(t) ==
  TwoLeast(LeftBy(NoCall,
                  TokensFrom(LowerOf(t), LastIndexOfCall(NoCall) + 1)).nums)

PlausibleLow == 100
PlausibleHigh == 20000

\* a filter that lets every number through
plausibleAlways(x) == ~x.null

\* plausible, line 57
plausible(x) ==
  ~x.null /\ Le(Whole(PlausibleLow), x) /\ Le(x, Whole(PlausibleHigh))

\* if (x != null && !plausible(x)) x = null, lines 58-60
Kept(x) == IF ~x.null /\ ~plausible(x) THEN NullV ELSE x

\* a pair that is never put in order
InvertedNever(min, max) == FALSE

\* min != null && max != null && min > max, line 56
Inverted(min, max) == ~min.null /\ ~max.null /\ Lt(max, min)

\* lines 57-61 alone: the pair is left in the order it came in
SanitizedUnswapped(swap, min, max, precio_ref) ==
  [min |-> Kept(min), max |-> Kept(max), precio_ref |-> Kept(precio_ref)]

\* lines 56-61 once it is known whether the pair is swapped
Sanitized(swap, min, max, precio_ref) ==
  [min |-> Kept(IF swap THEN max ELSE min),
   max |-> Kept(IF swap THEN min ELSE max),
   precio_ref |-> Kept(precio_ref)]

\* sanitizeRange, lines 55-62
sanitizeRange(min, max, precio_ref) ==
  Sanitized(Inverted(min, max), min, max, precio_ref)

W_m2 == {<<"m", "SUP2">>}
W_m2plain == {<<"m", "2">>}

\* \/\s*m2 at position q
UnitAt(t, q, unit) ==
  LitAt(t, q, <<"/">>) /\ \E w \in unit : LitAt(t, SkipSpaces(t, q + 1), w)

\* EUR\s*\/\s*m2 at position q
PerAreaAt(t, q, unit) ==
  LitAt(t, q, W_eur) /\ UnitAt(t, SkipSpaces(t, q + 1), unit)

\* ([\d\.\,]+)\s*EUR\s*\/\s*m2 with the group starting at a (0: no match)
PerAreaOr0(t, a, unit) ==
  IF IsNumCh(t[a]) /\ PerAreaAt(t, SkipSpaces(t, NumRunEnd(t, a)), unit)
  THEN a ELSE 0

\* t.match of line 100 for one of the two spellings of the unit: where the
\* group starts (0: null)
PerAreaMatch(t, unit) ==
  First([a \in 1..Len(t) |-> PerAreaOr0(t, a, unit)], 0)

\* line 100: the first spelling that matches
PerAreaGroup(t) ==
  First(<<PerAreaMatch(t, W_m2), PerAreaMatch(t, W_m2plain)>>, 0)

\* lines 86-96: the values of the groups m, or the fallback fb when both
\* are null
RangeOrFallback(min, max, fb) ==
  IF min.null /\ max.null THEN fb ELSE [min |-> min, max |-> max]

\* lines 103-104
WithPerArea(out, psqm) ==
  [min |-> out.min, max |-> out.max, precio_ref |-> out.precio_ref,
   psqm |-> psqm]

\* lines 86-96 and 103: the range of the groups m, else of the fallback
RangeOf(t, m, fb) ==
  RangeOrFallback(GroupValue(t, m[1]), GroupValue(t, m[2]), fb)

SanitizedRange(rng, precio_ref) == sanitizeRange(rng.min, rng.max, precio_ref)

\* extractRangeAndRef from line 68 on, t being the text in one line
ExtractOneLine(t) ==
  WithPerArea(SanitizedRange(RangeOf(t, RangeMatch(t), pickRangeFromText(t)),
                             GroupValue(t, RefGroup(t))),
              GroupValue(t, PerAreaGroup(t)))

\* extractRangeAndRef, lines 65-105, with pickRangeFromText as the first call
extractRangeAndRef(raw) == ExtractOneLine(LowerOf(OneLine(raw)))

\* what extractRangeAndRef takes from the text t in one line with the
\* patterns of lines 70-72, 82-84 and 100, and what the loop of lines 45-48
\* pushes for it from lastIndex 0
MatchedWith(t, m) ==
  [min |-> GroupValue(t, m[1]), max |-> GroupValue(t, m[2]),
   precio_ref |-> GroupValue(t, RefGroup(t)),
   psqm |-> GroupValue(t, PerAreaGroup(t)),
   pushed |-> TokensFrom(t, 1)]

Matched(raw) ==
  MatchedWith(LowerOf(OneLine(raw)), RangeMatch(LowerOf(OneLine(raw))))

\* the loop of lines 45-48 on the text raw from lastIndex = from: what it
\* pushes, m.pushed from 0
PushedFrom(raw, m, from) ==
  IF from = 0 THEN m.pushed ELSE TokensFrom(LowerOf(OneLine(raw)), from + 1)

\* lines 86-104 once pickRangeFromText, if called, has ended with `after`
Returned(m, rng) ==
  WithPerArea(SanitizedRange(rng, m.precio_ref), m.psqm)

\* extractRangeAndRef of the text raw, m being Matched(raw) and `was` what
\* the last call of pickRangeFromText ended with: r is what it returns and
\* left what the last call of pickRangeFromText has ended with after it.
\* Line 93 calls pickRangeFromText only when lines 86-91 gave no value
extractRangeAndRefAfter(raw, m, was) ==
  IF m.min.null /\ m.max.null
  THEN LET after == LeftBy(was, PushedFrom(raw, m, LastIndexOfCall(was)))
       IN [r |-> Returned(m, TwoLeast(after.nums)), left |-> after]
  ELSE [r |-> Returned(m, [min |-> m.min, max |-> m.max]), left |-> was]

-----------------------------------------------------------------------------
(* Responses *)

NoResp ==
  [status |-> 0, ok |-> FALSE, error |-> "", needs |-> <<>>, min |-> NullV,
   max |-> NullV, precio_ref |-> NullV, total |-> NullV, psqm |-> NullV,
   sample |-> <<>>]
Resp(st, ok, err) ==
  [NoResp EXCEPT !.status = st, !.ok = ok, !.error = err]

RespBadRc == Resp(400, FALSE, "RC invalida")
RespNeeds(b) == [Resp(200, FALSE, "FALTAN_CAMPOS") EXCEPT !.needs = Needs(b)]
\* the catch block of lines 435-438
RespFatal(err) == Resp(500, FALSE, err)
\* the soft failure of line 360 sent as a gateway timeout
RespNoInputAs504 == Resp(504, FALSE, "RC_INPUT_NOT_FOUND_ON_APP")

\* line 360; currentUrl, frameUrl, html and the sample of this answer are
\* not kept
RespNoInput == Resp(200, FALSE, "RC_INPUT_NOT_FOUND_ON_APP")

SampleLimit == 2000

\* a sample that is not cut
UiSampleWhole(full) == full

\* (full || "").slice(0, 2000), line 417
UiSample(full) ==
  SubSeq(full, 1, IF Len(full) < SampleLimit THEN Len(full) ELSE SampleLimit)

\* line 417
RespUiChanged(full) ==
  [Resp(200, FALSE, "UI_CHANGED") EXCEPT !.sample = UiSample(full)]

\* a total that prefers the top of the range
TotalMaxFirst(out) ==
  IF ~out.max.null THEN out.max
  ELSE IF ~out.precio_ref.null THEN out.precio_ref
  ELSE out.min

\* out.precio_ref ?? out.max ?? out.min ?? null, line 422
Total(out) ==
  IF ~out.precio_ref.null THEN out.precio_ref
  ELSE IF ~out.max.null THEN out.max
  ELSE out.min

\* line 423
RespOk(out, psqm) ==
  [Resp(200, TRUE, "") EXCEPT !.min = out.min, !.max = out.max,
                               !.precio_ref = out.precio_ref,
                               !.total = Total(out), !.psqm = psqm]

-----------------------------------------------------------------------------
(* URLs and surfaces: part_000 lines 110-114, 135-141 *)

\* a URL string that new URL() parses, by its hostname
Url(h) == [valid |-> TRUE, host |-> h]
\* a string new URL() throws on
UrlUnparsable == [valid |-> FALSE, host |-> ""]
\* about:blank, whose hostname is empty
UrlBlank == Url("")
\* SERPAVI, line 110
UrlSerpavi == Url("serpavi.mivau.gob.es")
\* the informational page, line 153
UrlInfo == Url("www.mivau.gob.es")
\* the browser's own error page
UrlError == Url("chromewebdata")
\* hosts that are not SERPAVI and carry its name inside theirs
UrlPrefixed == Url("xserpavi.mivau.gob.es")
UrlSuffixed == Url("serpavi.mivau.gob.esp.com")

\* the characters of the literal of line 113
SerpaviHost ==
  <<"s", "e", "r", "p", "a", "v", "i", ".", "m", "i", "v", "a", "u", ".",
    "g", "o", "b", ".", "e", "s">>

\* the characters of a hostname
HostChars(h) ==
  CASE h = "" -> <<>>
    [] h = "serpavi.mivau.gob.es" -> SerpaviHost
    [] h = "www.mivau.gob.es" -> <<"w", "w", "w">> \o SubSeq(SerpaviHost, 8, 20)
    [] h = "chromewebdata" ->
         <<"c", "h", "r", "o", "m", "e", "w", "e", "b", "d", "a", "t", "a">>
    [] h = "xserpavi.mivau.gob.es" -> <<"x">> \o SerpaviHost
    [] h = "serpavi.mivau.gob.esp.com" ->
         SerpaviHost \o <<"p", ".", "c", "o", "m">>

\* String.prototype.includes: n occurs in h at some character position
Includes(h, n) ==
  \E i \in 0..(Len(h) - Len(n)) : SubSeq(h, i + 1, i + Len(n)) = n

\* new URL(urlStr).hostname.includes("serpavi.mivau.gob.es"), false when
\* new URL() throws
isOnSerpavi(u) == u.valid /\ Includes(HostChars(u.host), SerpaviHost)

\* A page: the URL of its main frame and the URLs of its child frames
Page(u, kids) == [url |-> u, children |-> kids]
NoPage == [url |-> UrlUnparsable, children |-> <<>>]

PageBlank == Page(UrlBlank, <<>>)
PageOn == Page(UrlSerpavi, <<>>)
PageInfo == Page(UrlInfo, <<>>)
PageInfoFrameOn == Page(UrlInfo, <<UrlBlank, UrlSerpavi>>)
PageError == Page(UrlError, <<>>)
\* a page of another host whose name contains the literal of line 113
PageAlike == Page(UrlSuffixed, <<>>)
\* a page that embeds a frame of such a host ahead of the app's frame
PageFramesAlike == Page(UrlInfo, <<UrlPrefixed, UrlSerpavi>>)

\* page.frames(): the main frame first, then the child frames
Frames(p) == <<p.url>> \o p.children

\* getSerpaviFrame: index of the first frame on SERPAVI, 0 for null
getSerpaviFrame(p) ==
  LET fs == Frames(p)
      hits == {i \in 1..Len(fs) : isOnSerpavi(fs[i])}
  IN IF hits = {} THEN 0 ELSE CHOOSE i \in hits : \A j \in hits : i <= j

\* getSerpaviFrame(p) ?? p
TargetOf(p) ==
  LET i == getSerpaviFrame(p)
  IN IF i # 0 THEN [kind |-> "frame", url |-> Frames(p)[i]]
     ELSE [kind |-> "page", url |-> p.url]

NoTarget == [kind |-> "none", url |-> UrlUnparsable]
NoRet == [page |-> "none", target |-> NoTarget]

\* What the site can answer to page.goto(SERPAVI): the app, a redirect to a
\* page that embeds or does not embed the app, an error page, or nothing
DirectLoads == {PageOn, PageInfoFrameOn, PageInfo, PageError, PageBlank}
\* ... and to page.goto(informational page)
LandingLoads == {PageInfo, PageInfoFrameOn, PageError, PageBlank}
\* the same tab after link.click(): unchanged, or navigated
SameTabLoads(p) == {p, PageOn, PageInfoFrameOn, PageFramesAlike}
\* the spawned page once waitForLoadState settles
PopupLoads == {PageOn, PageInfo, PageBlank, PageAlike}

-----------------------------------------------------------------------------
(* Timeouts of the source, in ms *)

GotoTimeout == 20000
CookieSelectors == 8
CookieClickTimeout == 800
LinkClickTimeout == 2000
\* ctx.waitForEvent("page") is given no timeout: Playwright's default applies
PopupWaitTimeout == 30000
LoadStateTimeout == 15000
NavDeadlineMs == 25000
GlobalDeadlineMs == 40000
SearchClickTimeout == 2000
SearchClearTimeout == 1500
SearchFillTimeout == 2500
SearchPanelTimeout == 4000
SearchSettleMs == 800
CalcClickTimeout == 2000
CalcSettleMs == 2000
NetworkIdleTimeout == 15000

\* how many of the selectors of lines 118-125 match a button on a page with a
\* document: el.count() of line 130 is not zero for them, and line 130 clicks
\* them, one after the other
CookieMatches == 0..CookieSelectors
\* page.setDefaultTimeout(12000), target.setDefaultTimeout?.(12000):
\* lines 351 and 353
DefaultTimeout == 12000
\* opt.click({ timeout: 2000 }), line 229
OptionClickTimeout == 2000

-----------------------------------------------------------------------------
(* Request bodies *)

RcSamples ==
  {Undef, Str(<<>>), Str(Rep("A", RcLen)), Str(Rep("7", RcLen - 1) \o <<"Z">>),
   Str(Rep("A", RcLen - 1)), Str(Rep("A", RcLen + 1)),
   Str(Rep("A", RcLen - 1) \o <<"a">>), Str(Rep("A", RcLen - 1) \o <<"-">>)}
EtiquetaSamples == {Undef, Str(<<>>), Str(<<"A">>)}
EstadoSamples == {Undef, Null, Str(<<"b", "u", "e", "n", "o">>)}
PlantaSamples == {Undef, Null, Str(<<>>), Num(0), Num(3)}

\* the optional yes/no attributes of line 306, in the order of lines 370-376
FlagNames ==
  <<"ascensor", "aparcamiento", "amueblada", "conserjeria", "vistas",
    "piscina", "zonas">>

Flags == {FlagNames[i] : i \in 1..Len(FlagNames)}

\* a body that carries none of them, all of them with the value v, only the
\* one named f
NoFlags == [f \in Flags |-> Undef]
AllFlags(v) == [f \in Flags |-> v]
OneFlag(f, v) == [NoFlags EXCEPT ![f] = v]

\* the optional attributes explored; a body keeps them by their number here
Opts ==
  <<NoFlags, AllFlags(Null), AllFlags(Bool(TRUE)), AllFlags(Bool(FALSE)),
    OneFlag(FlagNames[1], Null), OneFlag(FlagNames[1], Bool(TRUE)),
    OneFlag(FlagNames[1], Bool(FALSE)),
    OneFlag(FlagNames[Len(FlagNames)], Null),
    OneFlag(FlagNames[Len(FlagNames)], Bool(TRUE)),
    OneFlag(FlagNames[Len(FlagNames)], Bool(FALSE))>>

\* the value of the optional attribute f in the body b
Flag(b, f) == Opts[b.opt][f]

Bodies ==
  [rc : RcSamples, etiqueta : EtiquetaSamples, estado : EstadoSamples,
   planta : PlantaSamples, opt : {1}]

\* the body of a request that is never made
NoBody ==
  [rc |-> Null, etiqueta |-> Null, estado |-> Null, planta |-> Null,
   opt |-> 1]

-----------------------------------------------------------------------------
(* Result pages: the texts the anchors of lines 391-397 and the body show *)

\* "Precio de referencia: 1.050,00 EUR"
T_ScenarioA ==
  <<"P", "r", "e", "c", "i", "o", " ", "d", "e", " ", "r", "e", "f", "e",
    "r", "e", "n", "c", "i", "a", ":", " ", "1", ".", "0", "5", "0", ",",
    "0", "0", " ", "EUR">>

\* "No hay resultados para la vivienda 2023"
T_NoPrices ==
  <<"N", "o", " ", "h", "a", "y", " ", "r", "e", "s", "u", "l", "t", "a",
    "d", "o", "s", " ", "p", "a", "r", "a", " ", "l", "a", " ", "v", "i",
    "v", "i", "e", "n", "d", "a", " ", "2", "0", "2", "3">>

\* "Rango: entre 800 EUR y 1.200 EUR"
T_Rango ==
  <<"R", "a", "n", "g", "o", ":", " ", "e", "n", "t", "r", "e", " ", "8",
    "0", "0", " ", "EUR", " ", "y", " ", "1", ".", "2", "0", "0", " ", "EUR">>

\* "Resultado\nRango: entre 800 EUR y 1.200 EUR al mes"
T_RangoBody ==
  <<"R", "e", "s", "u", "l", "t", "a", "d", "o", "\n", "R", "a", "n", "g",
    "o", ":", " ", "e", "n", "t", "r", "e", " ", "8", "0", "0", " ", "EUR",
    " ", "y", " ", "1", ".", "2", "0", "0", " ", "EUR", " ", "a", "l", " ",
    "m", "e", "s">>

\* "Precio de referencia"
T_RefLabel ==
  <<"P", "r", "e", "c", "i", "o", " ", "d", "e", " ", "r", "e", "f", "e",
    "r", "e", "n", "c", "i", "a">>

\* "Precio de referencia 900 EUR"
T_Ref900 ==
  <<"P", "r", "e", "c", "i", "o", " ", "d", "e", " ", "r", "e", "f", "e",
    "r", "e", "n", "c", "i", "a", " ", "9", "0", "0", " ", "EUR">>

\* "Precio de referencia: 850 EUR"
T_Ref850 ==
  <<"P", "r", "e", "c", "i", "o", " ", "d", "e", " ", "r", "e", "f", "e",
    "r", "e", "n", "c", "i", "a", ":", " ", "8", "5", "0", " ", "EUR">>

\* "Precio por superficie: 12,5 EUR/m^2 Superficie: 80 m^2"
T_PerArea ==
  <<"P", "r", "e", "c", "i", "o", " ", "p", "o", "r", " ", "s", "u", "p",
    "e", "r", "f", "i", "c", "i", "e", ":", " ", "1", "2", ",", "5", " ",
    "EUR", "/", "m", "SUP2", " ", "S", "u", "p", "e", "r", "f", "i", "c",
    "i", "e", ":", " ", "8", "0", " ", "m", "SUP2">>

\* "Precio de referencia: 850 EUR (25.000,00 EUR/m^2)"
T_RefPerArea ==
  <<"P", "r", "e", "c", "i", "o", " ", "d", "e", " ", "r", "e", "f", "e",
    "r", "e", "n", "c", "i", "a", ":", " ", "8", "5", "0", " ", "EUR", " ",
    "(", "2", "5", ".", "0", "0", "0", ",", "0", "0", " ", "EUR", "/", "m",
    "SUP2", ")">>

\* "Precio 50 EUR 800 EUR 950 EUR"
T_Tokens ==
  <<"P", "r", "e", "c", "i", "o", " ", "5", "0", " ", "EUR", " ", "8", "0",
    "0", " ", "EUR", " ", "9", "5", "0", " ", "EUR">>

\* "Precio 800 EUR 950 EUR"
T_TwoTokens ==
  <<"P", "r", "e", "c", "i", "o", " ", "8", "0", "0", " ", "EUR", " ", "9",
    "5", "0", " ", "EUR">>

\* "Rango entre 500 EUR y 30.000 EUR"
T_OnlyMin ==
  <<"R", "a", "n", "g", "o", " ", "e", "n", "t", "r", "e", " ", "5", "0",
    "0", " ", "EUR", " ", "y", " ", "3", "0", ".", "0", "0", "0", " ", "EUR">>

\* "Precio 300 EUR"
T_OnlyMax ==
  <<"P", "r", "e", "c", "i", "o", " ", "3", "0", "0", " ", "EUR">>

\* "Rango 800 EUR - 950 EUR"
T_Sep ==
  <<"R", "a", "n", "g", "o", " ", "8", "0", "0", " ", "EUR", " ", "-", " ",
    "9", "5", "0", " ", "EUR">>

\* "Precio 700 EUR a 900 EUR"
T_SepWide ==
  <<"P", "r", "e", "c", "i", "o", " ", "7", "0", "0", " ", "EUR", " ", "a",
    " ", "9", "0", "0", " ", "EUR">>

\* "Precio de referencia: 1.000 EUR\nRango 800 EUR - 1.200 EUR"
T_RefAndRange ==
  <<"P", "r", "e", "c", "i", "o", " ", "d", "e", " ", "r", "e", "f", "e",
    "r", "e", "n", "c", "i", "a", ":", " ", "1", ".", "0", "0", "0", " ",
    "EUR", "\n", "R", "a", "n", "g", "o", " ", "8", "0", "0", " ", "EUR",
    " ", "-", " ", "1", ".", "2", "0", "0", " ", "EUR">>

\* "Precio: 850 EUR"
T_Single ==
  <<"P", "r", "e", "c", "i", "o", ":", " ", "8", "5", "0", " ", "EUR">>

\* "Precio: 1.050,00 EUR"
T_SingleThousands ==
  <<"P", "r", "e", "c", "i", "o", ":", " ", "1", ".", "0", "5", "0", ",",
    "0", "0", " ", "EUR">>

\* "PRECIO MA'XIMO DE REFERENCIA\n\n900 euros"
T_Upper ==
  <<"P", "R", "E", "C", "I", "O", " ", "M", "A'", "X", "I", "M", "O", " ",
    "D", "E", " ", "R", "E", "F", "E", "R", "E", "N", "C", "I", "A", "\n",
    "\n", "9", "0", "0", " ", "e", "u", "r", "o", "s">>

\* "Precio mi'nimo: 700,50 euros, ma'ximo: 1.100 euros"
T_Minimo ==
  <<"P", "r", "e", "c", "i", "o", " ", "m", "i'", "n", "i", "m", "o", ":",
    " ", "7", "0", "0", ",", "5", "0", " ", "e", "u", "r", "o", "s", ",",
    " ", "m", "a'", "x", "i", "m", "o", ":", " ", "1", ".", "1", "0", "0",
    " ", "e", "u", "r", "o", "s">>

\* "Precio 9,75 EUR / m2"
T_Area9 ==
  <<"P", "r", "e", "c", "i", "o", " ", "9", ",", "7", "5", " ", "EUR", " ",
    "/", " ", "m", "2">>

\* "entre 900 EUR y 1.100 EUR"
T_ScenarioB ==
  <<"e", "n", "t", "r", "e", " ", "9", "0", "0", " ", "EUR", " ", "y", " ",
    "1", ".", "1", "0", "0", " ", "EUR">>

\* "Rango\r\n800(NBSP)EUR\f-\t950(NBSP)EUR": white space of other kinds
T_OtherSpaces ==
  <<"R", "a", "n", "g", "o", "\r", "\n", "8", "0", "0", "NBSP", "EUR", "\f",
    "-", "\t", "9", "5", "0", "NBSP", "EUR">>

\* "entre . euro 500 EUR xxxxxxxxxxxxxxxxxxxxxxx 900 EUR": no amount within 20
\* characters of "500 EUR", so the pattern of line 82 is matched with the
\* point as its first group
T_EntrePoint ==
  <<"e", "n", "t", "r", "e", " ", ".", " ", "e", "u", "r", "o", " ", "5", "0",
    "0", " ", "EUR", " ">> \o Rep("x", 23) \o <<" ", "9", "0", "0", " ", "EUR">>

\* "Precio 1.234,56 EUR/m^2"
T_Num1234 ==
  <<"P", "r", "e", "c", "i", "o", " ", "1", ".", "2", "3", "4", ",", "5",
    "6", " ", "EUR", "/", "m", "SUP2">>

\* "Precio 950 EUR/m2"
T_Num950 ==
  <<"P", "r", "e", "c", "i", "o", " ", "9", "5", "0", " ", "EUR", "/", "m",
    "2">>

\* "Precio 1,2,3 EUR/m^2"
T_NumCommas ==
  <<"P", "r", "e", "c", "i", "o", " ", "1", ",", "2", ",", "3", " ", "EUR",
    "/", "m", "SUP2">>

\* "Precio 1.234.567,8 EUR/m2"
T_NumMillions ==
  <<"P", "r", "e", "c", "i", "o", " ", "1", ".", "2", "3", "4", ".", "5",
    "6", "7", ",", "8", " ", "EUR", "/", "m", "2">>

\* "Precio . EUR/m2"
T_NumPoint ==
  <<"P", "r", "e", "c", "i", "o", " ", ".", " ", "EUR", "/", "m", "2">>

\* "Precio de referencia: 3 EUR entre 950 EUR y 25.000 EUR"
T_PlausA ==
  <<"P", "r", "e", "c", "i", "o", " ", "d", "e", " ", "r", "e", "f", "e", "r",
    "e", "n", "c", "i", "a", ":", " ", "3", " ", "EUR", " ", "e", "n", "t",
    "r", "e", " ", "9", "5", "0", " ", "EUR", " ", "y", " ", "2", "5", ".",
    "0", "0", "0", " ", "EUR">>

\* "Precio de referencia: 25.000 EUR entre 3 EUR y 950 EUR"
T_PlausB ==
  <<"P", "r", "e", "c", "i", "o", " ", "d", "e", " ", "r", "e", "f", "e", "r",
    "e", "n", "c", "i", "a", ":", " ", "2", "5", ".", "0", "0", "0", " ",
    "EUR", " ", "e", "n", "t", "r", "e", " ", "3", " ", "EUR", " ", "y", " ",
    "9", "5", "0", " ", "EUR">>

\* "Precio de referencia: 950 EUR entre 100 EUR y 20.000 EUR"
T_PlausC ==
  <<"P", "r", "e", "c", "i", "o", " ", "d", "e", " ", "r", "e", "f", "e", "r",
    "e", "n", "c", "i", "a", ":", " ", "9", "5", "0", " ", "EUR", " ", "e",
    "n", "t", "r", "e", " ", "1", "0", "0", " ", "EUR", " ", "y", " ", "2",
    "0", ".", "0", "0", "0", " ", "EUR">>

\* "Precio de referencia: 99,99 EUR entre 99,99 EUR y 20.000,01 EUR"
T_PlausD ==
  <<"P", "r", "e", "c", "i", "o", " ", "d", "e", " ", "r", "e", "f", "e", "r",
    "e", "n", "c", "i", "a", ":", " ", "9", "9", ",", "9", "9", " ", "EUR",
    " ", "e", "n", "t", "r", "e", " ", "9", "9", ",", "9", "9", " ", "EUR",
    " ", "y", " ", "2", "0", ".", "0", "0", "0", ",", "0", "1", " ", "EUR">>

\* "Precio entre 1.200 EUR y 900 EUR"
T_Swap ==
  <<"P", "r", "e", "c", "i", "o", " ", "e", "n", "t", "r", "e", " ", "1", ".",
    "2", "0", "0", " ", "EUR", " ", "y", " ", "9", "0", "0", " ", "EUR">>

\* "Precio 950 EUR - 800 EUR"
T_SwapSep ==
  <<"P", "r", "e", "c", "i", "o", " ", "9", "5", "0", " ", "EUR", " ", "-",
    " ", "8", "0", "0", " ", "EUR">>

T_Empty == <<>>

\* a body longer than the sample of line 417
T_Long == Rep("x", SampleLimit) \o <<" ">> \o T_NoPrices

\* two texts one after the other, as the innerText of the element around them
Join(t1, t2) == t1 \o <<"\n">> \o t2

NumAnchors == 5

\* el.count() = 0 for an anchor, and the text of a matched one
Absent == [count |-> 0, text |-> <<>>]
Region(t) == [count |-> 1, text |-> t]

\* A result page: what the five anchors match, in the order of line 391
\* (text=/Precio de referencia/, text=/Rango/, section, div and main that
\* have the text "Precio"), and document.body.innerText
Dom(a1, a2, a3, a4, a5, body) ==
  [regions |-> <<a1, a2, a3, a4, a5>>, body |-> body]

DomScenarioA ==
  Dom(Region(T_ScenarioA), Absent, Absent, Region(T_ScenarioA), Absent,
      T_ScenarioA)
DomRango ==
  Dom(Absent, Region(T_Rango), Absent, Absent, Absent, T_RangoBody)
\* the label stands in an element of its own; a section and the div before it
\* carry one amount each
DomTwoRefs ==
  Dom(Region(T_RefLabel), Absent, Region(T_Ref850), Region(T_Ref900),
      Region(Join(T_Ref900, T_Ref850)), Join(T_Ref900, T_Ref850))
DomRefPerArea ==
  Dom(Region(T_RefPerArea), Absent, Absent, Region(T_RefPerArea), Absent,
      T_RefPerArea)
DomTwoPerAreas ==
  Dom(Absent, Absent, Region(T_Area9), Region(T_RefPerArea), Absent,
      Join(T_Area9, T_RefPerArea))
DomMinThenMax ==
  Dom(Absent, Region(T_OnlyMin), Region(T_OnlyMax), Absent, Absent,
      Join(T_OnlyMin, T_OnlyMax))
DomTwoRanges ==
  Dom(Absent, Region(T_Sep), Region(T_SepWide), Absent,
      Region(Join(T_Sep, T_SepWide)), Join(T_Sep, T_SepWide))
DomRefAndRange ==
  Dom(Region(T_RefAndRange), Region(T_RefAndRange), Absent, Absent, Absent,
      T_RefAndRange)
DomOnlyMin == Dom(Absent, Region(T_OnlyMin), Absent, Absent, Absent, T_OnlyMin)
DomMinimo ==
  Dom(Absent, Absent, Region(T_Minimo), Region(T_Minimo), Region(T_Minimo),
      T_Minimo)

\* one text under three anchors, other texts under the anchors between them
DomRepeatTokens ==
  Dom(Region(T_Tokens), Region(T_Ref900), Region(T_Tokens), Region(T_Sep),
      Region(T_Tokens), Join(T_Tokens, T_Ref900))
DomRepeatRef ==
  Dom(Region(T_Ref900), Region(T_Tokens), Region(T_Sep), Region(T_Tokens),
      Region(T_Ref900), Join(T_Ref900, T_Tokens))

\* the texts that carry the word the anchors of lines 394-396 look for
PrecioTexts ==
  <<T_ScenarioA, T_Ref900, T_Ref850, T_PerArea, T_RefPerArea, T_Tokens,
    T_TwoTokens, T_OnlyMax, T_SepWide, T_RefAndRange, T_Single,
    T_SingleThousands, T_Upper, T_Minimo, T_Area9, T_RefLabel, T_Num1234,
    T_Num950, T_NumCommas, T_NumMillions, T_NumPoint, T_PlausA, T_PlausB,
    T_PlausC, T_PlausD, T_Swap, T_SwapSep>>

OtherTexts ==
  <<T_NoPrices, T_Rango, T_RangoBody, T_OnlyMin, T_Sep, T_Empty, T_Long,
    T_ScenarioB, T_OtherSpaces, T_EntrePoint>>

\* a page whose only matched anchor is a div with the text t
DivPage(t) == Dom(Absent, Absent, Absent, Region(t), Absent, t)

\* a page where no anchor matches
PlainPage(t) == Dom(Absent, Absent, Absent, Absent, Absent, t)

DomNoPrices == PlainPage(T_NoPrices)
DomLong == PlainPage(T_Long)

\* the result pages that are explored
Pages ==
  <<DomScenarioA, DomRango, DomTwoRefs, DomRefPerArea, DomTwoPerAreas,
    DomMinThenMax, DomTwoRanges, DomRefAndRange, DomOnlyMin, DomMinimo,
    DomRepeatTokens, DomRepeatRef>>
    \o [k \in 1..Len(PrecioTexts) |-> DivPage(PrecioTexts[k])]
    \o [k \in 1..Len(PrecioTexts) |-> PlainPage(PrecioTexts[k])]
    \o [k \in 1..Len(OtherTexts) |-> PlainPage(OtherTexts[k])]

NoPageYet == 0
PageNo(d) == CHOOSE n \in 1..Len(Pages) : Pages[n] = d

\* extractRangeAndRef of the texts of every page: of what its anchors match
\* (line 403) and of its body (line 413)
Extracted ==
  Chars([n \in 1..Len(Pages) |->
           [regions |-> Chars([i \in 1..NumAnchors |->
                                 extractRangeAndRef(Pages[n].regions[i].text)]),
            body |-> extractRangeAndRef(Pages[n].body)]])

\* Matched of the texts of every page
MatchedTexts ==
  Chars([n \in 1..Len(Pages) |->
           [regions |-> Chars([i \in 1..NumAnchors |->
                                 Matched(Pages[n].regions[i].text)]),
            body |-> Matched(Pages[n].body)]])

\* the result pages followed through the whole pipeline: one with a price and
\* one without
DomsBrief == {PageNo(DomScenarioA), PageNo(DomNoPrices)}

\* the locals of the loop before its first turn, line 398
AccStart ==
  [i |-> 1, min |-> NullV, max |-> NullV, precio_ref |-> NullV,
   psqm |-> NullV, rs |-> <<>>]

\* what rs keeps for an anchor that matched nothing
NoResult ==
  [min |-> NullV, max |-> NullV, precio_ref |-> NullV, psqm |-> NullV]

-----------------------------------------------------------------------------
(* Building blocks of the actions *)

\* res.status(..).json(..) followed by return
Send(r, response) ==
  /\ resp' = [resp EXCEPT ![r] = response]
  /\ sent' = [sent EXCEPT ![r] = @ + 1]
  /\ pc' = [pc EXCEPT ![r] = "done"]

\* a pool: hand out the session that is already running
LaunchIdPooled(ss) == IF ss = <<>> THEN Len(ss) + 1 ELSE 1

\* chromium.launch(): every call starts a new browser process
LaunchId(ss) == Len(ss) + 1

\* the answers of the site that are explored: all of them for a single
\* request, the app itself and the informational page for concurrent ones
Site(S) ==
  IF scope = "single" THEN S ELSE S \cap {PageOn, PageInfo}

\* the answers explored to the loads that follow the landing page: all of
\* them for a single request, the app itself for concurrent ones
SiteLater(S) ==
  IF scope = "single" THEN S ELSE S \cap {PageOn}

\* the pipeline of r has an await pending
Pending(r) ==
  \/ nav[r] \notin {"none", "returned", "threw"}
  \/ wk[r] \in {"locate", "search", "diag", "fill", "calc", "extract"}

\* the pending await of the pipeline of r may settle now: no timer that is
\* still armed is due before it
Settles(r) ==
  /\ pc[r] \in {"race", "done"}
  /\ ~stalled[r]
  /\ navT[r] = "armed" => due[r] <= NavDeadlineMs
  /\ globT[r] = "armed" => due[r] <= GlobalDeadlineMs

\* the timer set for time t may fire now: no await settles before it
Fires(r, t) ==
  \/ stalled[r]
  \/ ~Pending(r)
  \/ due[r] >= t

\* the time an await issued at due[r] and lasting d ms settles
Tick(r, d) ==
  IF scope \in {"single", "concurrent"} /\ globT[r] = "armed"
  THEN due[r] + d ELSE due[r]

\* the pending await settles and the next one, lasting one of ds, is issued
Await(r, ds) ==
  /\ now' = [now EXCEPT ![r] = due[r]]
  /\ \E d \in ds : due' = [due EXCEPT ![r] = Tick(r, d)]

\* the step drives the browser session behind the caller's ctx
Drive(r) == uses' = uses \cup {<<r, ctx[r]>>}

\* a handler that answers whenever `work` settles, the race decided or not
WorkSettlesAnswering(r, how, response) ==
  /\ wk' = [wk EXCEPT ![r] = how]
  /\ Send(r, response)

\* `work` settles; the handler's race, if still undecided, answers
WorkSettles(r, how, response) ==
  /\ wk' = [wk EXCEPT ![r] = how]
  /\ IF pc[r] = "race" THEN Send(r, response) ELSE UNCHANGED handlerVars

ErrUnreachable == "Error: SERPAVI_UNREACHABLE"
ErrTimeout == "Error: TIMEOUT_GLOBAL_40s"
ErrThrown == "Error: thrown by a Playwright call"

\* no call of searchByRC, the diagnostics, the filler, the calculation
\* trigger or the extraction is awaited
NoAwait == [call |-> "none", slow |-> FALSE]

Awaiting(call, slow) == [call |-> call, slow |-> slow]

\* how the calls that carry a timeout go: they settle at once, or they use up
\* their timeouts.  A pace is drawn when gotoSerpavi issues its first load, for
\* the calls of ensureSerpaviContext, and once more when searchByRC starts,
\* for the calls of the rest of `work`.  Both paces for a single request
Paces == IF scope = "single" THEN BOOLEAN ELSE {FALSE}

\* the time a call with the timeout t takes
Taking(slow, t) == {IF slow THEN t ELSE 0}

\* the time acceptCookiesIfAny takes on page p: a page without a document
\* has no button; on another page each click({ timeout: 800 }) of a selector
\* that matches settles at the pace of request r
CookieDurationsOn(r, p) ==
  IF p \in {NoPage, PageBlank, PageError} THEN {0}
  ELSE UNION {Taking(aw[r].slow, k * CookieClickTimeout) : k \in CookieMatches}

\* the pending await settles and `call`, lasting one of ds, is awaited
Goes(r, call, slow, ds) ==
  /\ aw' = [aw EXCEPT ![r] = Awaiting(call, slow)]
  /\ Await(r, ds)

\* the pending await settles and the function it belongs to is left
Leaves(r) ==
  /\ aw' = [aw EXCEPT ![r] = NoAwait]
  /\ Await(r, {0})

\* an await of gotoSerpavi rejects: gotoSerpavi rejects and, when the race of
\* ensureSerpaviContext (line 176) is still undecided, `work` rejects with it
\* and the catch of line 435 answers
NavThrows(r) ==
  /\ nav' = [nav EXCEPT ![r] = "threw"]
  /\ IF wk[r] = "ensure"
     THEN WorkSettles(r, "rejected", RespFatal(ErrThrown))
     ELSE UNCHANGED <<wk, handlerVars>>
  /\ Await(r, {0})

\* gotoSerpavi returns {page: which, target: TargetOf(pg)}; when the race of
\* ensureSerpaviContext is still undecided, work goes on to lines 351-356
NavReturn(r, which, pg) ==
  /\ ret' = [ret EXCEPT ![r] = [page |-> which, target |-> TargetOf(pg)]]
  /\ nav' = [nav EXCEPT ![r] = "returned"]
  /\ IF wk[r] = "ensure"
     THEN /\ wk' = [wk EXCEPT ![r] = "locate"]
          /\ searched' = [searched EXCEPT ![r] = TargetOf(pg)]
     ELSE UNCHANGED <<wk, searched>>
  /\ Await(r, {0})

-----------------------------------------------------------------------------
(* The handler up to the race: part_000 lines 296-346 *)

Post(r) ==
  /\ pc[r] = "idle"
  /\ IF ~RcAccepted(req[r].rc) THEN Send(r, RespBadRc)
     ELSE IF FaltanCampos(req[r]) THEN Send(r, RespNeeds(req[r]))
     ELSE /\ pc' = [pc EXCEPT ![r] = "launch"]
          /\ UNCHANGED <<resp, sent>>
  /\ UNCHANGED <<req, stalled, sessionVars, uses, wk, navVars, searched, now,
                 due, timerVars, scope, formVars, aw, searchVars,
                 extractVars>>

\* await chromium.launch(..), lines 318-328
LaunchSettles(r) ==
  /\ pc[r] = "launch"
  /\ \E ok \in BOOLEAN :
       IF ok
       THEN LET id == LaunchId(sessions)
            IN /\ sessions' =
                    IF id > Len(sessions)
                    THEN Append(sessions,
                                [owner |-> r, open |-> TRUE, contexts |-> 0])
                    ELSE sessions
               /\ browser' = [browser EXCEPT ![r] = id]
               /\ pc' = [pc EXCEPT ![r] = "newContext"]
               /\ UNCHANGED <<resp, sent>>
       ELSE /\ Send(r, RespFatal("launch failed"))
            /\ UNCHANGED <<sessions, browser>>
  /\ UNCHANGED <<req, stalled, ctx, uses, wk, navVars, searched, now, due,
                 timerVars, scope, formVars, aw, searchVars,
                 extractVars>>

\* await browser.newContext(..), lines 330-335
NewContextSettles(r) ==
  /\ pc[r] = "newContext"
  /\ ~stalled[r]
  /\ \E ok \in BOOLEAN :
       IF ok
       THEN /\ sessions' = [sessions EXCEPT ![browser[r]].contexts = @ + 1]
            /\ ctx' = [ctx EXCEPT ![r] = browser[r]]
            /\ pc' = [pc EXCEPT ![r] = "route"]
            /\ UNCHANGED <<resp, sent>>
       ELSE /\ Send(r, RespFatal("newContext failed"))
            /\ UNCHANGED <<sessions, ctx>>
  /\ UNCHANGED <<req, stalled, browser, uses, wk, navVars, searched, now, due,
                 timerVars, scope, formVars, aw, searchVars,
                 extractVars>>

\* await ctx.route(..), lines 338-345; then `work` starts and runs up to its
\* first await (ctx.newPage() in gotoSerpavi), which arms the 25 s timer, and
\* the handler arms the 40 s timer and awaits the race, lines 347-429
RouteSettles(r) ==
  /\ pc[r] = "route"
  /\ ~stalled[r]
  /\ \E ok \in BOOLEAN :
       IF ok
       THEN /\ pc' = [pc EXCEPT ![r] = "race"]
            /\ wk' = [wk EXCEPT ![r] = "ensure"]
            /\ nav' = [nav EXCEPT ![r] = "newPage"]
            /\ navT' = [navT EXCEPT ![r] = "armed"]
            /\ globT' = [globT EXCEPT ![r] = "armed"]
            /\ Drive(r)
            /\ UNCHANGED <<resp, sent>>
       ELSE /\ Send(r, RespFatal("route failed"))
            /\ UNCHANGED <<wk, nav, navT, globT, uses>>
  /\ UNCHANGED <<req, stalled, sessionVars, page, popup, link, loads, ret,
                 searched, now, due, scope, formVars, aw, searchVars, extractVars>>

\* the calls awaited by searchByRC (lines 223, 241, 244), by the diagnostics
\* (lines 358-359), by the helpers of the filler (lines 252, 262, 264) and by
\* the calculation trigger (line 386) that take no timeout
UntimedCalls ==
  {"count", "ficha", "visible", "content", "bodyText", "radioCount",
   "anchorCount", "body", "html"}

\* An awaited call that carries no timeout never settles: browser.newContext
\* and ctx.route; ctx.newPage (line 144), el.count() of acceptCookiesIfAny
\* (line 130) and link.count() (line 156) in gotoSerpavi; searchBox.count()
\* (line 195), the calls of UntimedCalls, and the calls of the extraction.
\* For concurrent requests the hanging of newContext and of route is the one
\* followed
Stall(r) ==
  /\ ~stalled[r]
  /\ \/ pc[r] \in {"newContext", "route"}
     \/ /\ pc[r] = "race"
        /\ scope = "single"
        /\ \/ nav[r] \in {"newPage", "linkCount", "cookies1", "cookies2",
                          "cookies3", "cookies4"}
           \/ wk[r] = "locate"
           \/ /\ wk[r] \in {"search", "diag", "fill", "calc", "extract"}
              /\ aw[r].call \in UntimedCalls
  /\ stalled' = [stalled EXCEPT ![r] = TRUE]
  /\ UNCHANGED <<req, handlerVars, sessionVars, uses, wk, navVars, searched,
                 now, due, timerVars, scope, formVars, aw, searchVars,
                 extractVars>>

-----------------------------------------------------------------------------
(* gotoSerpavi: part_000 lines 143-173 *)

\* a fallback that asks for the app's own address once more
FallbackLoadDirect == "direct"

\* the address loaded when the direct load gave no surface on SERPAVI, line 153
FallbackLoad == "landing"

\* line 144 settles: with the page, and page.goto(SERPAVI) of line 147 is
\* issued; or rejecting, which nothing in gotoSerpavi catches
NavNewPage(r) ==
  /\ nav[r] = "newPage"
  /\ Settles(r)
  /\ \E opened \in BOOLEAN :
       IF opened
       THEN /\ page' = [page EXCEPT ![r] = PageBlank]
            /\ loads' = [loads EXCEPT ![r] = Append(@, "direct")]
            /\ nav' = [nav EXCEPT ![r] = "goto1"]
            /\ \E slow \in Paces :
                 /\ aw' = [aw EXCEPT ![r] = Awaiting("none", slow)]
                 /\ Await(r, Taking(slow, GotoTimeout))
            /\ UNCHANGED <<wk, handlerVars>>
       ELSE /\ NavThrows(r)
            /\ UNCHANGED <<page, loads, aw>>
  /\ Drive(r)
  /\ UNCHANGED <<req, stalled, sessionVars, popup, link, ret, searched,
                 timerVars, scope, formVars, searchVars, extractVars>>

\* line 147 settles (its failure is swallowed); acceptCookiesIfAny of line 148
NavDirectLoaded(r) ==
  /\ nav[r] = "goto1"
  /\ Settles(r)
  /\ \E p \in Site(DirectLoads) :
       /\ page' = [page EXCEPT ![r] = p]
       /\ Await(r, CookieDurationsOn(r, p))
  /\ nav' = [nav EXCEPT ![r] = "cookies1"]
  /\ Drive(r)
  /\ UNCHANGED <<req, handlerVars, stalled, sessionVars, wk, popup, link,
                 loads, ret, searched, timerVars, scope, formVars, aw, searchVars,
                 extractVars>>

\* lines 149-153: return when the page or one of its frames is on SERPAVI,
\* else page.goto(informational page)
NavDirectChecked(r) ==
  /\ nav[r] = "cookies1"
  /\ Settles(r)
  /\ IF isOnSerpavi(TargetOf(page[r]).url)
     THEN /\ NavReturn(r, "page", page[r])
          /\ UNCHANGED loads
     ELSE /\ loads' = [loads EXCEPT ![r] = Append(@, FallbackLoad)]
          /\ nav' = [nav EXCEPT ![r] = "goto2"]
          /\ Await(r, Taking(aw[r].slow, GotoTimeout))
          /\ UNCHANGED <<wk, ret, searched>>
  /\ Drive(r)
  /\ UNCHANGED <<req, handlerVars, stalled, sessionVars, page, popup, link,
                 timerVars, scope, formVars, aw, searchVars,
                 extractVars>>

\* line 153 settles; acceptCookiesIfAny of line 154
NavLandingLoaded(r) ==
  /\ nav[r] = "goto2"
  /\ Settles(r)
  /\ \E p \in Site(LandingLoads) :
       /\ page' = [page EXCEPT ![r] = p]
       /\ Await(r, CookieDurationsOn(r, p))
  /\ nav' = [nav EXCEPT ![r] = "cookies2"]
  /\ Drive(r)
  /\ UNCHANGED <<req, handlerVars, stalled, sessionVars, wk, popup, link,
                 loads, ret, searched, timerVars, scope, formVars, aw, searchVars,
                 extractVars>>

\* line 154 settles; link.count() of line 156 is awaited
NavCookiesDone(r) ==
  /\ nav[r] = "cookies2"
  /\ Settles(r)
  /\ nav' = [nav EXCEPT ![r] = "linkCount"]
  /\ Await(r, {0})
  /\ Drive(r)
  /\ UNCHANGED <<req, handlerVars, stalled, sessionVars, wk, page, popup,
                 link, loads, ret, searched, timerVars, scope, formVars, aw,
                 searchVars,
                 extractVars>>

\* line 156 settles.  With an anchor: Promise.all of lines 157-160, which
\* settles when the click has settled and a page event has come or the wait
\* for it has timed out.  Without: the retry of line 169.  Rejecting: nothing
\* in gotoSerpavi catches it
NavLinkCounted(r) ==
  /\ nav[r] = "linkCount"
  /\ Settles(r)
  /\ \E o \in {"anchor", "none", "throws"} :
       CASE o = "anchor" ->
              /\ link' = [link EXCEPT ![r] = 1]
              /\ nav' = [nav EXCEPT ![r] = "click"]
              /\ \E spawned \in BOOLEAN :
                   IF spawned
                   THEN /\ popup' = [popup EXCEPT ![r] = PageBlank]
                        /\ Await(r, Taking(aw[r].slow, LinkClickTimeout))
                   ELSE /\ popup' = popup
                        /\ Await(r, {PopupWaitTimeout})
              /\ UNCHANGED <<loads, wk, handlerVars>>
         [] o = "none" ->
              /\ link' = [link EXCEPT ![r] = 0]
              /\ loads' = [loads EXCEPT ![r] = Append(@, "direct")]
              /\ nav' = [nav EXCEPT ![r] = "goto3"]
              /\ Await(r, Taking(aw[r].slow, GotoTimeout))
              /\ UNCHANGED <<popup, wk, handlerVars>>
         [] o = "throws" ->
              /\ NavThrows(r)
              /\ UNCHANGED <<link, loads, popup>>
  /\ Drive(r)
  /\ UNCHANGED <<req, stalled, sessionVars, page, ret, searched, timerVars,
                 scope, formVars, aw, searchVars, extractVars>>

\* lines 157-162: newPage = popup || page; waitForLoadState on it
NavClicked(r) ==
  /\ nav[r] = "click"
  /\ Settles(r)
  /\ IF popup[r] = NoPage
     THEN \E p \in SiteLater(SameTabLoads(page[r])) :
            page' = [page EXCEPT ![r] = p]
     ELSE UNCHANGED page
  /\ nav' = [nav EXCEPT ![r] = "waitLoad"]
  /\ Await(r, Taking(aw[r].slow, LoadStateTimeout))
  /\ Drive(r)
  /\ UNCHANGED <<req, handlerVars, stalled, sessionVars, wk, popup, link,
                 loads, ret, searched, timerVars, scope, formVars, aw, searchVars,
                 extractVars>>

\* line 162 settles; acceptCookiesIfAny of line 163
NavNewPageLoaded(r) ==
  /\ nav[r] = "waitLoad"
  /\ Settles(r)
  /\ IF popup[r] = NoPage
     THEN /\ UNCHANGED popup
          /\ Await(r, CookieDurationsOn(r, page[r]))
     ELSE \E p \in SiteLater(PopupLoads) :
            /\ popup' = [popup EXCEPT ![r] = p]
            /\ Await(r, CookieDurationsOn(r, p))
  /\ nav' = [nav EXCEPT ![r] = "cookies3"]
  /\ Drive(r)
  /\ UNCHANGED <<req, handlerVars, stalled, sessionVars, wk, page, link,
                 loads, ret, searched, timerVars, scope, formVars, aw, searchVars,
                 extractVars>>

\* lines 164-165: return { page: newPage, target }, whatever target is
NavLandingReturned(r) ==
  /\ nav[r] = "cookies3"
  /\ Settles(r)
  /\ IF popup[r] = NoPage
     THEN NavReturn(r, "page", page[r])
     ELSE NavReturn(r, "popup", popup[r])
  /\ Drive(r)
  /\ UNCHANGED <<req, handlerVars, stalled, sessionVars, page, popup, link,
                 loads, timerVars, scope, formVars, aw, searchVars,
                 extractVars>>

\* line 169 settles; acceptCookiesIfAny of line 170
NavRetryLoaded(r) ==
  /\ nav[r] = "goto3"
  /\ Settles(r)
  /\ \E p \in SiteLater(DirectLoads) :
       /\ page' = [page EXCEPT ![r] = p]
       /\ Await(r, CookieDurationsOn(r, p))
  /\ nav' = [nav EXCEPT ![r] = "cookies4"]
  /\ Drive(r)
  /\ UNCHANGED <<req, handlerVars, stalled, sessionVars, wk, popup, link,
                 loads, ret, searched, timerVars, scope, formVars, aw, searchVars,
                 extractVars>>

\* lines 171-172: return { page, target }, whatever target is
NavRetryReturned(r) ==
  /\ nav[r] = "cookies4"
  /\ Settles(r)
  /\ NavReturn(r, "page", page[r])
  /\ Drive(r)
  /\ UNCHANGED <<req, handlerVars, stalled, sessionVars, page, popup, link,
                 loads, timerVars, scope, formVars, aw, searchVars,
                 extractVars>>

-----------------------------------------------------------------------------
(* ensureSerpaviContext and the rest of `work`: part_000 lines 175-181, 347-424 *)

\* the timer of line 178 fires: the race of ensureSerpaviContext, if still
\* undecided, rejects, `work` rejects with it and the handler's catch answers
NavDeadline(r) ==
  /\ navT[r] = "armed"
  /\ Fires(r, NavDeadlineMs)
  /\ navT' = [navT EXCEPT ![r] = "fired"]
  /\ now' = [now EXCEPT ![r] = NavDeadlineMs]
  /\ IF wk[r] = "ensure"
     THEN WorkSettles(r, "rejected", RespFatal(ErrUnreachable))
     ELSE UNCHANGED <<wk, handlerVars>>
  /\ UNCHANGED <<req, stalled, sessionVars, uses, navVars, searched, due,
                 globT, scope, formVars, aw, searchVars, extractVars>>

\* the timer of line 428 fires: the handler's race, if still undecided,
\* rejects and the catch answers; `work` is not told
GlobalDeadline(r) ==
  /\ globT[r] = "armed"
  /\ navT[r] # "armed"
  /\ Fires(r, GlobalDeadlineMs)
  /\ globT' = [globT EXCEPT ![r] = "fired"]
  /\ now' = [now EXCEPT ![r] = GlobalDeadlineMs]
  /\ IF pc[r] = "race"
     THEN Send(r, RespFatal(ErrTimeout))
     ELSE UNCHANGED handlerVars
  /\ UNCHANGED <<req, stalled, sessionVars, uses, wk, navVars, searched, due,
                 navT, scope, formVars, aw, searchVars, extractVars>>

\* a flow that goes on to the form whatever searchByRC returned
AfterSearchAlwaysFill(ok) == "fill"

\* a flow that searches once more when searchByRC returned false
AfterSearchRetry(ok) == IF ok THEN "fill" ELSE "locate"

\* lines 357-364: the diagnostics and the soft failure when searchByRC
\* returned false, the attribute filler otherwise
AfterSearch(ok) == IF ok THEN "fill" ELSE "diag"

\* whether the click and the fills of lines 198-200 went through: both
\* outcomes for a single request, the good one for concurrent ones
Fills == IF scope = "single" THEN BOOLEAN ELSE {TRUE}

\* "No se han encontrado direcciones"
T_OptNone ==
  <<"N", "o", " ", "s", "e", " ", "h", "a", "n", " ", "e", "n", "c", "o",
    "n", "t", "r", "a", "d", "o", " ", "d", "i", "r", "e", "c", "c", "i",
    "o", "n", "e", "s">>

\* "NO SE HAN ENCONTRADO DIRECCIONES"
T_OptNoneUpper ==
  <<"N", "O", " ", "S", "E", " ", "H", "A", "N", " ", "E", "N", "C", "O",
    "N", "T", "R", "A", "D", "O", " ", "D", "I", "R", "E", "C", "C", "I",
    "O", "N", "E", "S">>

\* "CL MAYOR 1 MADRID"
T_OptAddress ==
  <<"C", "L", " ", "M", "A", "Y", "O", "R", " ", "1", " ", "M", "A", "D",
    "R", "I", "D">>

\* an option under the panel: its text, and whether opt.innerText() gives it
Option(text, read) == [text |-> text, read |-> read]

W_sentinel ==
  {<<"n", "o", " ", "s", "e", " ", "h", "a", "n", " ", "e", "n", "c", "o",
     "n", "t", "r", "a", "d", "o">>}

\* /no se han encontrado/i.test(txt), line 228
IsSentinel(txt) == KeyStarts(LowerOf(txt), W_sentinel) # {}

\* (await opt.innerText().catch(()=>"")) || "", line 227
InnerText(opt) == IF opt.read THEN opt.text ELSE <<>>

InspectLimit == 5

\* the loop of lines 225-232 from the option i on (the options are counted
\* from 1 here), n being Math.min(count, 5): how many options were asked
\* for their text, and the options opt.click was called on (a failure of the
\* click is swallowed)
RECURSIVE Inspect(_, _, _)
Inspect(list, n, i) ==
  IF i > n THEN [inspected |-> n, clicked |-> <<>>]
  ELSE IF ~IsSentinel(InnerText(list[i]))
  THEN [inspected |-> i, clicked |-> <<i>>]
  ELSE Inspect(list, n, i + 1)

\* sugg before searchByRC has come to line 223
NoSugg ==
  [list |-> <<>>, count |-> 0, inspected |-> 0, clicked |-> <<>>,
   enters |-> 0]

\* lines 223-236 with the options list under the panel, counted telling
\* whether options.count() settled (it gives 0 when it did not): the loop
\* over the options, or Enter pressed once more
Suggestions(list, counted) ==
  LET count == IF counted THEN Len(list) ELSE 0
      n == IF count < InspectLimit THEN count ELSE InspectLimit
      loop == Inspect(list, n, 1)
  IN IF count > 0
     THEN [list |-> list, count |-> count, inspected |-> loop.inspected,
           clicked |-> loop.clicked, enters |-> 0]
     ELSE [list |-> list, count |-> 0, inspected |-> 0, clicked |-> <<>>,
           enters |-> 1]

OptionKinds ==
  {Option(T_OptAddress, TRUE), Option(T_OptNone, TRUE),
   Option(T_OptNoneUpper, TRUE), Option(T_OptAddress, FALSE),
   Option(T_OptNone, FALSE)}

\* the lists of options that are explored: up to two options of every kind,
\* and lists that reach and pass the fifth option
OptionLists ==
  {<<>>} \cup {<<a>> : a \in OptionKinds}
    \cup {<<a, b>> : a \in OptionKinds, b \in OptionKinds}
    \cup {Rep(Option(T_OptNone, TRUE), 4) \o <<Option(T_OptAddress, TRUE)>>,
          Rep(Option(T_OptNone, TRUE), 5) \o <<Option(T_OptAddress, TRUE)>>,
          Rep(Option(T_OptAddress, TRUE), 7)}

\* what the panel shows and whether options.count() settles: every list for
\* the search on its own, one address that is counted otherwise
Rendered ==
  IF scope = "search" THEN OptionLists ELSE {<<Option(T_OptAddress, TRUE)>>}
Counts == IF scope = "search" THEN BOOLEAN ELSE {TRUE}

\* searchByRC, lines 240-245: the form shows, or else the input is gone
SearchResult(ficha, stillVisible) == ficha \/ ~stillVisible

AsFlag(ok) == IF ok THEN "true" ELSE "false"

-----------------------------------------------------------------------------
(* The request interception: part_000 lines 338-345 *)

\* the list of line 342
HeavyTypes == {"image", "font", "media"}

\* the alternatives of the pattern of line 343
TrackingWords ==
  {<<"a", "n", "a", "l", "y", "t", "i", "c", "s">>,
   <<"g", "o", "o", "g", "l", "e", "t", "a", "g">>,
   <<"g", "t", "m">>,
   <<"h", "o", "t", "j", "a", "r">>,
   <<"m", "a", "t", "o", "m", "o">>,
   <<"d", "o", "u", "b", "l", "e", "c", "l", "i", "c", "k">>,
   <<"f", "a", "c", "e", "b", "o", "o", "k">>,
   <<"c", "o", "o", "k">>}

\* /analytics|googletag|gtm|hotjar|matomo|doubleclick|facebook|cook/i.test(url)
IsTracking(url) == KeyStarts(LowerOf(url), TrackingWords) # {}

\* a handler whose branches do not return: every statement runs
RouteCallsFallingThrough(t, url) ==
  (IF t \in HeavyTypes THEN <<"abort">> ELSE <<>>)
    \o (IF IsTracking(url) THEN <<"abort">> ELSE <<>>)
    \o <<"continue">>

\* the calls the handler of lines 338-345 makes on `route` for a request of
\* resource type t to url
RouteCalls(t, url) ==
  IF t \in HeavyTypes THEN <<"abort">>
  ELSE IF IsTracking(url) THEN <<"abort">>
  ELSE <<"continue">>

\* the resource types and the addresses of the requests explored
ResourceTypes ==
  {"document", "stylesheet", "script", "xhr", "image", "font", "media"}

\* "serpavi.es/app.js"
U_App ==
  <<"s", "e", "r", "p", "a", "v", "i", ".", "e", "s", "/", "a", "p", "p",
    ".", "j", "s">>
\* "serpavi.es/logo.png"
U_Logo ==
  <<"s", "e", "r", "p", "a", "v", "i", ".", "e", "s", "/", "l", "o", "g",
    "o", ".", "p", "n", "g">>
\* "serpavi.es/Cookies.js"
U_Cookies ==
  <<"s", "e", "r", "p", "a", "v", "i", ".", "e", "s", "/", "C", "o", "o",
    "k", "i", "e", "s", ".", "j", "s">>
\* "x.com/GTM.js"
U_Gtm == <<"x", ".", "c", "o", "m", "/", "G", "T", "M", ".", "j", "s">>
\* "g.com/analytics"
U_Analytics ==
  <<"g", ".", "c", "o", "m", "/", "a", "n", "a", "l", "y", "t", "i", "c",
    "s">>
\* "g.com/analytic"
U_Analytic ==
  <<"g", ".", "c", "o", "m", "/", "a", "n", "a", "l", "y", "t", "i", "c">>

Urls == {U_App, U_Logo, U_Cookies, U_Gtm, U_Analytics, U_Analytic}

\* the requests of one session whose interception is followed: two when the
\* interception is followed on its own, one beside the pipeline
MaxRequests == 2
MaxRequestsBeside == 1

RequestCap == IF scope = "route" THEN MaxRequests ELSE MaxRequestsBeside

\* the requests explored, each a resource type and an address: all of them
\* when the interception is followed on its own; beside the pipeline an
\* image and a script of the site for a single request, the image alone for
\* concurrent ones
Requested ==
  IF scope = "route" THEN ResourceTypes \X Urls
  ELSE IF scope = "single" THEN {<<"image", U_Logo>>, <<"script", U_App>>}
  ELSE {<<"image", U_Logo>>}

\* the calls of the handler for every request explored
Decisions == [e \in ResourceTypes \X Urls |-> RouteCalls(e[1], e[2])]

\* a page of the session of r issues a request and the handler of lines
\* 338-345 is run on it: at any moment once ctx.newPage has given a page,
\* also after the answer, since the context is not closed
Route(r) ==
  /\ pc[r] \in {"race", "done"}
  /\ ctx[r] # 0
  /\ loads[r] # <<>>
  /\ Len(net[r]) < RequestCap
  /\ \E e \in Requested :
       net' = [net EXCEPT ![r] =
                 Append(@, [type |-> e[1], url |-> e[2],
                            calls |-> Decisions[e]])]
  /\ UNCHANGED <<req, handlerVars, stalled, sessionVars, uses, wk, navVars,
                 searched, now, due, timerVars, scope, form, aw, searchVars,
                 extractVars>>

-----------------------------------------------------------------------------
(* The attribute filler: part_000 lines 249-265, 364-376 *)

\* String.prototype.trim
Trim(s) ==
  LET keep == {i \in 1..Len(s) : ~IsSpace(s[i])}
  IN IF keep = {} THEN <<>> ELSE SubSeq(s, MinOf(keep), MaxOf(keep))

\* toUpperCase of one character: the capital of a small letter, the two
\* letters SS for the sharp s, which has no capital of its own, and else the
\* character itself
UpperCh(c) ==
  IF c = "SZ" THEN <<"S", "S">>
  ELSE IF \E i \in 1..Len(LowerLetters) : LowerLetters[i] = c
  THEN <<UpperLetters[CHOOSE i \in 1..Len(LowerLetters) :
                        LowerLetters[i] = c]>>
  ELSE <<c>>

\* String.prototype.toUpperCase
RECURSIVE UpperOf(_)
UpperOf(t) ==
  IF t = <<>> THEN <<>> ELSE UpperCh(Head(t)) \o UpperOf(Tail(t))

\* the list of line 365
EnergyLabels ==
  {<<"A">>, <<"B">>, <<"C">>, <<"D">>, <<"E">>, <<"F">>, <<"G">>}

\* the controls the filler looks for, in the order of lines 366-376: three
\* labelled fields, then one radio group for each of FlagNames
NumFields == 3
NumControls == 10

\* a control of the page: no element matches the step's pattern ("absent"),
\* or the first match is a <select>, another labelled element ("input"), or
\* a group with the radios named
Control(kind, radios) == [kind |-> kind, radios |-> radios]
NoControl == Control("absent", <<>>)

N_Si == <<"S", "i'">>
N_No == <<"N", "o">>
N_Yes == <<"Y", "e", "s">>

W_yes == {<<"s", "i">>, <<"s", "i'">>, <<"y", "e", "s">>}
W_no == {<<"n", "o">>}

\* the pattern of line 263: /s[ii']|yes/i for true, /no/i for false
RadioPattern(yes) == IF yes THEN W_yes ELSE W_no

\* group.getByRole("radio", {name}).first(): the first radio of the group
\* whose name matches, 0 when radio.count() is 0
RadioPick(radios, yes) ==
  LET hits == {i \in 1..Len(radios) :
                 KeyStarts(LowerOf(radios[i]), RadioPattern(yes)) # {}}
  IN IF hits = {} THEN 0 ELSE MinOf(hits)

\* what one setter did: the calls it awaited, in order, the calls among them
\* that act on a control, and whether it threw
Quiet(awaits) == [calls |-> <<>>, threw |-> FALSE, awaits |-> awaits]
Thrown(awaits) == [calls |-> <<>>, threw |-> TRUE, awaits |-> awaits]
Call(op, arg, ok) == [op |-> op, arg |-> arg, ok |-> ok]
Did(before, op, arg, ok) ==
  [calls |-> <<Call(op, arg, ok)>>, threw |-> FALSE,
   awaits |-> Append(before, op)]

\* the Playwright call that fails during a run of the filler, if any: the
\* call `op` of the step `step`
NoFault == [step |-> 0, op |-> "none"]

\* setSelectOrInput(target, labelRegex, value), lines 249-258, on the control
\* c when the call flt fails: sel.count() is awaited outside the try
setSelectOrInput(c, value, flt) ==
  IF value = <<>> THEN Quiet(<<>>)
  ELSE IF flt = "count" THEN Thrown(<<"count">>)
  ELSE IF c.kind = "absent" THEN Quiet(<<"count">>)
  ELSE IF flt = "evaluate" THEN Quiet(<<"count", "evaluate">>)
  ELSE Did(<<"count", "evaluate">>,
           IF c.kind = "select" THEN "selectOption" ELSE "fill", value,
           flt # "set")

\* setRadioYesNo(target, groupRegex, yes), lines 259-265, on the control c
\* when the call flt fails: only radio.check() carries a catch
setRadioYesNo(c, yes, flt) ==
  IF yes.t \in {"undefined", "null"} THEN Quiet(<<>>)
  ELSE IF flt = "count" THEN Thrown(<<"count">>)
  ELSE IF c.kind = "absent" THEN Quiet(<<"count">>)
  ELSE IF flt = "radioCount" THEN Thrown(<<"count", "radioCount">>)
  ELSE IF RadioPick(c.radios, Truthy(yes)) = 0
  THEN Quiet(<<"count", "radioCount">>)
  ELSE Did(<<"count", "radioCount">>, "check",
           c.radios[RadioPick(c.radios, Truthy(yes))], flt # "check")

\* !!flag, the third argument of lines 370-376
YesOf(v) == Bool(Truthy(v))

\* String(etiqueta).trim().toUpperCase(), line 364
EtOf(b) == UpperOf(Trim(ToStr(b.etiqueta)))

\* the step k of lines 364-376 for the body b
FillStep(b, c, k, flt) ==
  CASE k = 1 -> IF EtOf(b) \in EnergyLabels
                THEN setSelectOrInput(c, EtOf(b), flt) ELSE Quiet(<<>>)
    [] k = 2 -> setSelectOrInput(c, ToStr(b.estado), flt)
    [] k = 3 -> setSelectOrInput(c, ToStr(b.planta), flt)
    [] k > NumFields ->
         setRadioYesNo(c, YesOf(Flag(b, FlagNames[k - NumFields])), flt)

\* a call made on the control of step k
On(k, calls) ==
  [i \in 1..Len(calls) |->
     [ctl |-> k, op |-> calls[i].op, arg |-> calls[i].arg,
      ok |-> calls[i].ok]]

\* lines 364-376 from step k on: the calls made, the number of steps that
\* returned, and whether one threw (the steps after it are not run)
RECURSIVE Filler(_, _, _, _)
Filler(b, controls, fault, k) ==
  IF k > NumControls
  THEN [calls |-> <<>>, at |-> NumControls, threw |-> FALSE]
  ELSE LET one == FillStep(b, controls[k], k,
                           IF fault.step = k THEN fault.op ELSE "none")
       IN IF one.threw
          THEN [calls |-> <<>>, at |-> k - 1, threw |-> TRUE]
          ELSE LET rest == Filler(b, controls, fault, k + 1)
               IN [calls |-> On(k, one.calls) \o rest.calls,
                   at |-> rest.at, threw |-> rest.threw]

\* the result of lines 364-376 for the body b on a page with the given
\* controls, when the call `fault` fails
FormRun(b, controls, fault) == Filler(b, controls, fault, 1)

\* a form with a <select> for the label and the state, an <input> for the
\* height, and the seven groups, each with its two radios
FormFull ==
  [k \in 1..NumControls |->
     IF k = 3 THEN Control("input", <<>>)
     ELSE IF k <= NumFields THEN Control("select", <<>>)
     ELSE Control("group", <<N_Si, N_No>>)]

FormEmpty == [k \in 1..NumControls |-> NoControl]

\* a form that shows the second field and the first group alone
FormBrief ==
  [k \in 1..NumControls |->
     IF k \in {2, NumFields + 1} THEN FormFull[k] ELSE NoControl]

\* the full form with other radios in its groups
FormWith(rs) ==
  [k \in 1..NumControls |->
     IF k <= NumFields THEN FormFull[k] ELSE Control("group", rs)]

\* the forms explored: the full one, the empty one, the full one without its
\* second field or its first group, the full one with other radios in its
\* groups, and the brief one
Forms ==
  <<FormFull, FormEmpty, [FormFull EXCEPT ![2] = NoControl],
    [FormFull EXCEPT ![NumFields + 1] = NoControl],
    FormWith(<<N_No, N_Si>>), FormWith(<<N_Si>>), FormWith(<<N_No>>),
    FormWith(<<N_Yes, N_No>>), FormWith(<<>>), FormBrief>>

FormNo(f) == CHOOSE k \in 1..Len(Forms) : Forms[k] = f

\* the failures explored: none, one of a call on the second field, one of a
\* call on the first or on the last group
FaultSamples ==
  {NoFault}
    \cup [step : {2}, op : {"count", "evaluate", "set"}]
    \cup [step : {NumFields + 1, NumControls},
          op : {"count", "radioCount", "check"}]

\* the forms and the failures that are explored: all of them for the filler
\* on its own; elsewhere the form with one field and one group, for a single
\* request with or without a failure of the count of line 252
FormPages == IF scope = "fill" THEN 1..Len(Forms) ELSE {FormNo(FormBrief)}
FillFaults ==
  IF scope = "fill" THEN FaultSamples
  ELSE IF scope = "single" THEN {NoFault, [step |-> 2, op |-> "count"]}
  ELSE {NoFault}

\* no run of the filler yet
NoForm == [controls |-> 0, fault |-> NoFault, k |-> 0, j |-> 0]

\* the filler met the form f with the failure fault, and is not running
FormLeft(f, fault) == [controls |-> f, fault |-> fault, k |-> 0, j |-> 0]

\* the filler met the full form and no call failed
FormDone == FormLeft(FormNo(FormFull), NoFault)

\* the helper called by line k of lines 366-376
HelperOf(b, controls, fault, k) ==
  FillStep(b, controls[k], k, IF fault.step = k THEN fault.op ELSE "none")

\* the first line from k on whose helper awaits a call, NumControls + 1 when
\* there is none
RECURSIVE NextHelper(_, _, _, _)
NextHelper(b, controls, fault, k) ==
  IF k > NumControls THEN k
  ELSE IF HelperOf(b, controls, fault, k).awaits # <<>> THEN k
  ELSE NextHelper(b, controls, fault, k + 1)

\* the timeout of a call of the helpers: sel.evaluate, selectOption, fill
\* and check wait for their element under the default timeout
FillTimeout(call) ==
  IF call \in UntimedCalls THEN 0 ELSE DefaultTimeout

\* lines 364-379 from line k on, on the form f with the failure fault: the
\* first call of the next helper that awaits one, or btnCalc.count() of
\* line 386 when the filler is through
FillGoesOn(r, f, fault, k, slow) ==
  LET k2 == NextHelper(req[r], Forms[f], fault, k)
  IN IF k2 <= NumControls
     THEN /\ form' = [form EXCEPT ![r] =
                        [controls |-> f, fault |-> fault, k |-> k2, j |-> 1]]
          /\ wk' = [wk EXCEPT ![r] = "fill"]
          /\ LET call == HelperOf(req[r], Forms[f], fault, k2).awaits[1]
             IN Goes(r, call, slow, Taking(slow, FillTimeout(call)))
     ELSE /\ form' = [form EXCEPT ![r] = FormLeft(f, fault)]
          /\ wk' = [wk EXCEPT ![r] = "calc"]
          /\ Goes(r, "count", slow, {0})

\* line 364: the filler starts, on one of the forms and with one of the
\* failures explored
FillEnters(r) ==
  \E f \in FormPages, fault \in FillFaults :
    FillGoesOn(r, f, fault, 1, aw[r].slow)

\* lines 249-265 and 366-376: the call the helper of line form[r].k awaits
\* settles.  The helper awaits its next call; or it has thrown and `work`
\* rejects; or it returns and the filler goes on
FillAwaited(r) ==
  /\ wk[r] = "fill"
  /\ Settles(r)
  /\ LET f == form[r].controls
         fault == form[r].fault
         one == HelperOf(req[r], Forms[f], fault, form[r].k)
     IN IF form[r].j < Len(one.awaits)
        THEN /\ form' = [form EXCEPT ![r].j = @ + 1]
             /\ Goes(r, one.awaits[form[r].j + 1], aw[r].slow,
                     Taking(aw[r].slow,
                            FillTimeout(one.awaits[form[r].j + 1])))
             /\ UNCHANGED <<wk, handlerVars>>
        ELSE IF one.threw
        THEN /\ form' = [form EXCEPT ![r].j = 0]
             /\ WorkSettles(r, "rejected", RespFatal(ErrThrown))
             /\ Leaves(r)
        ELSE /\ FillGoesOn(r, f, fault, form[r].k + 1, aw[r].slow)
             /\ UNCHANGED handlerVars
  /\ Drive(r)
  /\ UNCHANGED <<req, stalled, sessionVars, navVars, searched, timerVars,
                 scope, net, searchVars, extractVars>>

\* line 386: btnCalc.count() settles.  With a button it is clicked; without
\* one, waitForTimeout(2000) of line 387; rejecting, nothing catches it and
\* `work` rejects
CalcCounted(r) ==
  /\ wk[r] = "calc"
  /\ aw[r].call = "count"
  /\ Settles(r)
  /\ \E o \in {"button", "none", "throws"} :
       CASE o = "button" ->
              /\ Goes(r, "click", aw[r].slow,
                      Taking(aw[r].slow, CalcClickTimeout))
              /\ UNCHANGED <<wk, handlerVars>>
         [] o = "none" ->
              /\ Goes(r, "settle", aw[r].slow, {CalcSettleMs})
              /\ UNCHANGED <<wk, handlerVars>>
         [] o = "throws" ->
              /\ WorkSettles(r, "rejected", RespFatal(ErrThrown))
              /\ Leaves(r)
  /\ Drive(r)
  /\ UNCHANGED <<req, stalled, sessionVars, navVars, searched, timerVars,
                 scope, formVars, searchVars, extractVars>>

\* lines 386-387: btnCalc.click settles, a failure swallowed;
\* waitForTimeout(2000)
CalcClicked(r) ==
  /\ wk[r] = "calc"
  /\ aw[r].call = "click"
  /\ Settles(r)
  /\ Goes(r, "settle", aw[r].slow, {CalcSettleMs})
  /\ Drive(r)
  /\ UNCHANGED <<req, handlerVars, stalled, sessionVars, wk, navVars,
                 searched, timerVars, scope, formVars, searchVars,
                 extractVars>>

\* lines 387-388: the 2000 ms have passed; waitForLoadState("networkidle")
CalcWaited(r) ==
  /\ wk[r] = "calc"
  /\ aw[r].call = "settle"
  /\ Settles(r)
  /\ Goes(r, "idle", aw[r].slow, Taking(aw[r].slow, NetworkIdleTimeout))
  /\ Drive(r)
  /\ UNCHANGED <<req, handlerVars, stalled, sessionVars, wk, navVars,
                 searched, timerVars, scope, formVars, searchVars,
                 extractVars>>

\* line 388: waitForLoadState settles, a failure swallowed; the page it
\* leaves is the one the extraction reads, and the loop of line 399 starts
\* with el.count() of its first anchor
CalcSettles(r) ==
  /\ wk[r] = "calc"
  /\ aw[r].call = "idle"
  /\ Settles(r)
  /\ wk' = [wk EXCEPT ![r] = "extract"]
  /\ \E d \in DomsBrief : dom' = [dom EXCEPT ![r] = d]
  /\ acc' = [acc EXCEPT ![r] = AccStart]
  /\ Goes(r, "anchorCount", aw[r].slow, {0})
  /\ Drive(r)
  /\ UNCHANGED <<req, handlerVars, stalled, sessionVars, navVars, searched,
                 timerVars, scope, formVars, searchVars, left>>

-----------------------------------------------------------------------------
(* searchByRC and the diagnostics, await by await: part_000 lines 184-246,
   356-361 *)

\* searchByRC returns ok to line 356: lines 357-364 take `work` to the
\* diagnostics or to the first helper of the filler that awaits a call
SearchReturns(r, ok) ==
  /\ okSearch' = [okSearch EXCEPT ![r] = AsFlag(ok)]
  /\ CASE AfterSearch(ok) = "fill" -> FillEnters(r)
       [] AfterSearch(ok) = "diag" ->
            /\ wk' = [wk EXCEPT ![r] = "diag"]
            /\ Goes(r, "content", FALSE, {0})
            /\ UNCHANGED form
       [] AfterSearch(ok) = "locate" ->
            /\ wk' = [wk EXCEPT ![r] = "locate"]
            /\ Leaves(r)
            /\ UNCHANGED form

\* searchByRC, line 195: searchBox.count()
SearchLocate(r) ==
  /\ wk[r] = "locate"
  /\ Settles(r)
  /\ \E o \in {"present", "absent", "throws"} :
       CASE o = "present" ->
              /\ wk' = [wk EXCEPT ![r] = "search"]
              /\ searchBox' = [searchBox EXCEPT ![r] = "present"]
              /\ \E slow \in Paces :
                   Goes(r, "click", slow, Taking(slow, SearchClickTimeout))
              /\ UNCHANGED <<handlerVars, okSearch, form>>
         [] o = "absent" ->
              /\ searchBox' = [searchBox EXCEPT ![r] = "absent"]
              /\ SearchReturns(r, FALSE)
              /\ UNCHANGED handlerVars
         [] o = "throws" ->
              /\ WorkSettles(r, "rejected", RespFatal(ErrThrown))
              /\ Leaves(r)
              /\ UNCHANGED <<searchBox, okSearch, form>>
  /\ Drive(r)
  /\ UNCHANGED <<req, stalled, sessionVars, navVars, searched, timerVars,
                 scope, net, sugg, extractVars>>

\* the call awaited after `call` in lines 198-212
SearchNext(call) ==
  CASE call = "click" -> "clear"
    [] call = "clear" -> "fill"
    [] call = "fill" -> "press"
    [] call = "press" -> "panel"

\* the timeout of a call of lines 198-235: its own, or the default one
SearchTimeout(call) ==
  CASE call = "click" -> SearchClickTimeout
    [] call = "clear" -> SearchClearTimeout
    [] call = "fill" -> SearchFillTimeout
    [] call = "press" -> DefaultTimeout
    [] call = "panel" -> SearchPanelTimeout
    [] call = "innerText" -> DefaultTimeout
    [] call = "optClick" -> OptionClickTimeout
    [] call = "pressAgain" -> DefaultTimeout

\* searchByRC, lines 198-201: one of searchBox.click, fill(" "), fill(rc),
\* press("Enter") settles, a failure swallowed, and the next call is awaited
SearchTyped(r) ==
  /\ wk[r] = "search"
  /\ aw[r].call \in {"click", "clear", "fill", "press"}
  /\ Settles(r)
  /\ IF aw[r].call = "fill"
     THEN \E filled \in Fills :
            searchBox' = [searchBox EXCEPT ![r] =
                            IF filled THEN "filled" ELSE "present"]
     ELSE UNCHANGED searchBox
  /\ Goes(r, SearchNext(aw[r].call), aw[r].slow,
          Taking(aw[r].slow, SearchTimeout(SearchNext(aw[r].call))))
  /\ Drive(r)
  /\ UNCHANGED <<req, handlerVars, stalled, sessionVars, wk, navVars,
                 searched, timerVars, scope, formVars, okSearch, sugg,
                 extractVars>>

\* searchByRC, line 212: panel.waitFor settles, a failure swallowed, and
\* options.count() of line 223 is awaited
SearchPanel(r) ==
  /\ wk[r] = "search"
  /\ aw[r].call = "panel"
  /\ Settles(r)
  /\ Goes(r, "count", aw[r].slow, {0})
  /\ Drive(r)
  /\ UNCHANGED <<req, handlerVars, stalled, sessionVars, wk, navVars,
                 searched, timerVars, scope, formVars, searchVars,
                 extractVars>>

\* searchByRC, lines 223-227 and 235: options.count() settles (0 when it
\* rejects); the text of the first option is asked for, or Enter is pressed
\* once more
SearchCounted(r) ==
  /\ wk[r] = "search"
  /\ aw[r].call = "count"
  /\ Settles(r)
  /\ \E list \in Rendered, counted \in Counts :
       LET count == IF counted THEN Len(list) ELSE 0
       IN IF count > 0
          THEN /\ sugg' = [sugg EXCEPT ![r] =
                             [list |-> list, count |-> count, inspected |-> 1,
                              clicked |-> <<>>, enters |-> 0]]
               /\ Goes(r, "innerText", aw[r].slow,
                       Taking(aw[r].slow, SearchTimeout("innerText")))
          ELSE /\ sugg' = [sugg EXCEPT ![r] =
                             [list |-> list, count |-> 0, inspected |-> 0,
                              clicked |-> <<>>, enters |-> 1]]
               /\ Goes(r, "pressAgain", aw[r].slow,
                       Taking(aw[r].slow, SearchTimeout("pressAgain")))
  /\ Drive(r)
  /\ UNCHANGED <<req, handlerVars, stalled, sessionVars, wk, navVars,
                 searched, timerVars, scope, formVars, searchBox, okSearch,
                 extractVars>>

\* searchByRC, lines 225-232: opt.innerText() of the option the loop is at
\* settles ("" when it rejects); the option is clicked, or the text of the
\* next one is asked for, or the loop is over
SearchOptionRead(r) ==
  /\ wk[r] = "search"
  /\ aw[r].call = "innerText"
  /\ Settles(r)
  /\ LET i == sugg[r].inspected
         n == IF sugg[r].count < InspectLimit THEN sugg[r].count
              ELSE InspectLimit
     IN IF ~IsSentinel(InnerText(sugg[r].list[i]))
        THEN /\ sugg' = [sugg EXCEPT ![r].clicked = <<i>>]
             /\ Goes(r, "optClick", aw[r].slow,
                     Taking(aw[r].slow, SearchTimeout("optClick")))
        ELSE IF i < n
        THEN /\ sugg' = [sugg EXCEPT ![r].inspected = i + 1]
             /\ Goes(r, "innerText", aw[r].slow,
                     Taking(aw[r].slow, SearchTimeout("innerText")))
        ELSE /\ UNCHANGED sugg
             /\ Goes(r, "settle", aw[r].slow, {SearchSettleMs})
  /\ Drive(r)
  /\ UNCHANGED <<req, handlerVars, stalled, sessionVars, wk, navVars,
                 searched, timerVars, scope, formVars, searchBox, okSearch,
                 extractVars>>

\* searchByRC, lines 229 and 235: opt.click or the second press("Enter")
\* settles, a failure swallowed; waitForTimeout(800) of line 239
SearchChosen(r) ==
  /\ wk[r] = "search"
  /\ aw[r].call \in {"optClick", "pressAgain"}
  /\ Settles(r)
  /\ Goes(r, "settle", aw[r].slow, {SearchSettleMs})
  /\ Drive(r)
  /\ UNCHANGED <<req, handlerVars, stalled, sessionVars, wk, navVars,
                 searched, timerVars, scope, formVars, searchVars,
                 extractVars>>

\* searchByRC, lines 239-241: the 800 ms have passed; ficha.count()
SearchWaited(r) ==
  /\ wk[r] = "search"
  /\ aw[r].call = "settle"
  /\ Settles(r)
  /\ Goes(r, "ficha", aw[r].slow, {0})
  /\ Drive(r)
  /\ UNCHANGED <<req, handlerVars, stalled, sessionVars, wk, navVars,
                 searched, timerVars, scope, formVars, searchVars,
                 extractVars>>

\* searchByRC, line 241: ficha.count() settles.  The form shows: return
\* true.  It does not: searchBox.isVisible() of line 244.  It rejects:
\* nothing catches it, and `work` rejects
SearchFichaCounted(r) ==
  /\ wk[r] = "search"
  /\ aw[r].call = "ficha"
  /\ Settles(r)
  /\ \E o \in {"shows", "none", "throws"} :
       CASE o = "shows" ->
              /\ SearchReturns(r, SearchResult(TRUE, TRUE))
              /\ UNCHANGED handlerVars
         [] o = "none" ->
              /\ Goes(r, "visible", aw[r].slow, {0})
              /\ UNCHANGED <<wk, handlerVars, okSearch, form>>
         [] o = "throws" ->
              /\ WorkSettles(r, "rejected", RespFatal(ErrThrown))
              /\ Leaves(r)
              /\ UNCHANGED <<okSearch, form>>
  /\ Drive(r)
  /\ UNCHANGED <<req, stalled, sessionVars, navVars, searched, timerVars,
                 scope, net, searchBox, sugg, extractVars>>

\* searchByRC, lines 244-245: searchBox.isVisible() settles (false when it
\* rejects); return !stillVisible
SearchVisible(r) ==
  /\ wk[r] = "search"
  /\ aw[r].call = "visible"
  /\ Settles(r)
  /\ \E stillVisible \in BOOLEAN :
       SearchReturns(r, SearchResult(FALSE, stillVisible))
  /\ Drive(r)
  /\ UNCHANGED <<req, handlerVars, stalled, sessionVars, navVars, searched,
                 timerVars, scope, net, searchBox, sugg, extractVars>>

\* line 358: content() settles, a failure swallowed; evaluate of line 359
DiagContent(r) ==
  /\ wk[r] = "diag"
  /\ aw[r].call = "content"
  /\ Settles(r)
  /\ Goes(r, "bodyText", FALSE, {0})
  /\ Drive(r)
  /\ UNCHANGED <<req, handlerVars, stalled, sessionVars, wk, navVars,
                 searched, timerVars, scope, formVars, searchVars,
                 extractVars>>

\* lines 359-360: the soft failure, unless target.evaluate throws
DiagSettles(r) ==
  /\ wk[r] = "diag"
  /\ aw[r].call = "bodyText"
  /\ Settles(r)
  /\ \E ok \in BOOLEAN :
       IF ok
       THEN WorkSettles(r, "resolved", RespNoInput)
       ELSE WorkSettles(r, "rejected", RespFatal(ErrThrown))
  /\ Leaves(r)
  /\ Drive(r)
  /\ UNCHANGED <<req, stalled, sessionVars, navVars, searched, timerVars,
                 scope, formVars, searchVars, extractVars>>

\* lines 403-407: the result r of one region taken into the locals
Merge(a, r) ==
  [i |-> a.i + 1,
   min |-> IF ~r.min.null /\ (a.min.null \/ Lt(r.min, a.min))
           THEN r.min ELSE a.min,
   max |-> IF ~r.max.null /\ (a.max.null \/ Lt(a.max, r.max))
           THEN r.max ELSE a.max,
   precio_ref |-> IF ~r.precio_ref.null THEN r.precio_ref ELSE a.precio_ref,
   psqm |-> IF ~r.psqm.null THEN r.psqm ELSE a.psqm,
   rs |-> Append(a.rs, r)]

\* lines 401-408: one turn of the loop, for the anchor el; r is
\* extractRangeAndRef of its text
Turn(a, el, r) ==
  IF el.count = 0
  THEN [a EXCEPT !.i = @ + 1, !.rs = Append(@, NoResult)]
  ELSE Merge(a, r)

\* the loop of lines 399-409 from the locals a on, over the page d
RECURSIVE Turns(_, _)
Turns(a, d) ==
  IF a.i > NumAnchors THEN a
  ELSE Turns(Turn(a, Pages[d].regions[a.i], Extracted[d].regions[a.i]), d)

\* !x
Falsy(x) == x.null \/ x.m = 0

\* an answer that is ok whatever the locals hold: the test of line 415 left out
OutcomeAlwaysOk(min, max, precio_ref, psqm, full) ==
  RespOk(sanitizeRange(min, max, precio_ref), psqm)

\* lines 411-423 once the locals are final: the answer of `work`
Outcome(min, max, precio_ref, psqm, full) ==
  IF Falsy(min) /\ Falsy(max) /\ Falsy(precio_ref)
  THEN RespUiChanged(full)
  ELSE RespOk(sanitizeRange(min, max, precio_ref), psqm)

\* lines 413-414: the result f of the whole body replaces the locals a
FromBody(a, f, full) ==
  Outcome(f.min, f.max, f.precio_ref,
          IF f.psqm.null THEN a.psqm ELSE f.psqm, full)

\* line 414: the result f of the whole body replaces the locals a
Replaced(a, f) ==
  [a EXCEPT !.min = f.min, !.max = f.max, !.precio_ref = f.precio_ref,
            !.psqm = IF f.psqm.null THEN @ ELSE f.psqm,
            !.rs = Append(@, f)]

\* lines 399-411 once a turn of the loop has left the locals a: el.count()
\* of the next anchor is awaited; or, after the last anchor,
\* target.evaluate of line 412 when the anchors gave nothing, and else
\* `work` returns the answer of lines 421-423
ExtractGoesOn(r, a, slow) ==
  /\ acc' = [acc EXCEPT ![r] = a]
  /\ IF a.i <= NumAnchors
     THEN /\ Goes(r, "anchorCount", slow, {0})
          /\ UNCHANGED <<wk, handlerVars>>
     ELSE IF a.min.null /\ a.max.null /\ a.precio_ref.null
     THEN /\ Goes(r, "body", slow, {0})
          /\ UNCHANGED <<wk, handlerVars>>
     ELSE /\ WorkSettles(r, "resolved",
                         RespOk(sanitizeRange(a.min, a.max, a.precio_ref),
                                a.psqm))
          /\ Leaves(r)

\* line 401: el.count() of the anchor acc[r].i settles.  With a match
\* el.evaluate of line 402 is awaited, under the default timeout; without
\* one the loop goes on; rejecting, nothing catches it and `work` rejects
ExtractCounted(r) ==
  /\ wk[r] = "extract"
  /\ aw[r].call = "anchorCount"
  /\ Settles(r)
  /\ \E o \in {"counted", "throws"} :
       IF o = "throws"
       THEN /\ WorkSettles(r, "rejected", RespFatal(ErrThrown))
            /\ Leaves(r)
            /\ UNCHANGED acc
       ELSE IF Pages[dom[r]].regions[acc[r].i].count # 0
       THEN /\ Goes(r, "anchorText", aw[r].slow,
                    Taking(aw[r].slow, DefaultTimeout))
            /\ UNCHANGED <<wk, handlerVars, acc>>
       ELSE ExtractGoesOn(r, Turn(acc[r], Pages[dom[r]].regions[acc[r].i],
                                  NoResult),
                          aw[r].slow)
  /\ Drive(r)
  /\ UNCHANGED <<req, stalled, sessionVars, navVars, searched, timerVars,
                 scope, formVars, searchVars, dom, left>>

\* line 403 for the anchor i of the page d
AnchorParsed(d, i, was) ==
  extractRangeAndRefAfter(Pages[d].regions[i].text,
                          MatchedTexts[d].regions[i], was)

\* line 413 for the body of the page d
BodyParsed(d, was) ==
  extractRangeAndRefAfter(Pages[d].body, MatchedTexts[d].body, was)

\* lines 402-407: el.evaluate of the anchor acc[r].i settles.  Its text goes
\* through extractRangeAndRef and into the locals; rejecting, nothing
\* catches it and `work` rejects
ExtractEvaluated(r) ==
  /\ wk[r] = "extract"
  /\ aw[r].call = "anchorText"
  /\ Settles(r)
  /\ \E o \in {"read", "throws"} :
       IF o = "throws"
       THEN /\ WorkSettles(r, "rejected", RespFatal(ErrThrown))
            /\ Leaves(r)
            /\ UNCHANGED <<acc, left>>
       ELSE LET parsed == AnchorParsed(dom[r], acc[r].i, left)
            IN /\ left' = parsed.left
               /\ ExtractGoesOn(r, Turn(acc[r],
                                        Pages[dom[r]].regions[acc[r].i],
                                        parsed.r),
                                aw[r].slow)
  /\ Drive(r)
  /\ UNCHANGED <<req, stalled, sessionVars, navVars, searched, timerVars,
                 scope, formVars, searchVars, dom>>

\* lines 412-415: target.evaluate settles with the text of the whole body,
\* whose result replaces the locals.  With nothing in them content() of
\* line 416 is awaited, and else `work` returns the answer of lines
\* 421-423; rejecting, nothing catches it and `work` rejects
ExtractBody(r) ==
  /\ wk[r] = "extract"
  /\ aw[r].call = "body"
  /\ Settles(r)
  /\ \E o \in {"read", "throws"} :
       IF o = "throws"
       THEN /\ WorkSettles(r, "rejected", RespFatal(ErrThrown))
            /\ Leaves(r)
            /\ UNCHANGED <<acc, left>>
       ELSE LET parsed == BodyParsed(dom[r], left)
                out == FromBody(acc[r], parsed.r, Pages[dom[r]].body)
            IN /\ left' = parsed.left
               /\ acc' = [acc EXCEPT ![r] = Replaced(@, parsed.r)]
               /\ IF out.ok
                  THEN WorkSettles(r, "resolved", out) /\ Leaves(r)
                  ELSE /\ Goes(r, "html", aw[r].slow, {0})
                       /\ UNCHANGED <<wk, handlerVars>>
  /\ Drive(r)
  /\ UNCHANGED <<req, stalled, sessionVars, navVars, searched, timerVars,
                 scope, formVars, searchVars, dom>>

\* lines 416-417: content() settles, a failure swallowed, and `work` returns
\* the answer UI_CHANGED with the text of the body as its sample
ExtractHtml(r) ==
  /\ wk[r] = "extract"
  /\ aw[r].call = "html"
  /\ Settles(r)
  /\ WorkSettles(r, "resolved",
                 Outcome(acc[r].min, acc[r].max, acc[r].precio_ref,
                         acc[r].psqm, Pages[dom[r]].body))
  /\ Leaves(r)
  /\ Drive(r)
  /\ UNCHANGED <<req, stalled, sessionVars, navVars, searched, timerVars,
                 scope, formVars, searchVars, extractVars>>

-----------------------------------------------------------------------------
(* Specifications *)

InitRest ==
  /\ resp = [r \in Reqs |-> NoResp]
  /\ sent = [r \in Reqs |-> 0]
  /\ stalled = [r \in Reqs |-> FALSE]
  /\ sessions = <<>>
  /\ browser = [r \in Reqs |-> 0]
  /\ ctx = [r \in Reqs |-> 0]
  /\ uses = {}
  /\ wk = [r \in Reqs |-> "none"]
  /\ nav = [r \in Reqs |-> "none"]
  /\ page = [r \in Reqs |-> NoPage]
  /\ popup = [r \in Reqs |-> NoPage]
  /\ link = [r \in Reqs |-> 0]
  /\ loads = [r \in Reqs |-> <<>>]
  /\ ret = [r \in Reqs |-> NoRet]
  /\ searched = [r \in Reqs |-> NoTarget]
  /\ now = [r \in Reqs |-> 0]
  /\ due = [r \in Reqs |-> 0]
  /\ navT = [r \in Reqs |-> "off"]
  /\ globT = [r \in Reqs |-> "off"]
  /\ searchBox = [r \in Reqs |-> "none"]
  /\ okSearch = [r \in Reqs |-> "none"]
  /\ sugg = [r \in Reqs |-> NoSugg]
  /\ form = [r \in Reqs |-> NoForm]
  /\ net = [r \in Reqs |-> <<>>]
  /\ dom = [r \in Reqs |-> NoPageYet]
  /\ acc = [r \in Reqs |-> AccStart]
  /\ left = NoCall
  /\ aw = [r \in Reqs |-> NoAwait]

\* One request, any body, with the durations of its awaits kept
Init ==
  /\ scope = "single"
  /\ \E b \in Bodies : req = [r \in Reqs |-> IF r = 1 THEN b ELSE NoBody]
  /\ pc = [r \in Reqs |-> IF r = 1 THEN "idle" ELSE "absent"]
  /\ InitRest

ConcBodies ==
  {[rc |-> rc, etiqueta |-> Str(<<"A">>),
    estado |-> Str(<<"b", "u", "e", "n", "o">>), planta |-> Num(3),
    opt |-> 1] :
     rc \in {Str(Rep("A", RcLen)), Str(Rep("A", RcLen - 1))}}

\* Every request in flight at once, their steps interleaved in every order.
\* Each request keeps the durations of its own awaits, counted from the
\* moment its races were armed.  The inputs are fewer than for a single
\* request: see Site, SiteLater, Paces, Fills, FillFaults, Requested and
\* Stall
InitConc ==
  /\ scope = "concurrent"
  /\ req \in [Reqs -> ConcBodies]
  /\ pc = [r \in Reqs |-> "idle"]
  /\ InitRest

Step(r) ==
    \/ Post(r)
    \/ LaunchSettles(r)
    \/ NewContextSettles(r)
    \/ RouteSettles(r)
    \/ Stall(r)
    \/ NavNewPage(r)
    \/ NavDirectLoaded(r)
    \/ NavDirectChecked(r)
    \/ NavLandingLoaded(r)
    \/ NavCookiesDone(r)
    \/ NavLinkCounted(r)
    \/ NavClicked(r)
    \/ NavNewPageLoaded(r)
    \/ NavLandingReturned(r)
    \/ NavRetryLoaded(r)
    \/ NavRetryReturned(r)
    \/ NavDeadline(r)
    \/ GlobalDeadline(r)
    \/ SearchLocate(r)
    \/ SearchTyped(r)
    \/ SearchPanel(r)
    \/ SearchCounted(r)
    \/ SearchOptionRead(r)
    \/ SearchChosen(r)
    \/ SearchWaited(r)
    \/ SearchFichaCounted(r)
    \/ SearchVisible(r)
    \/ DiagContent(r)
    \/ DiagSettles(r)
    \/ FillAwaited(r)
    \/ CalcCounted(r)
    \/ CalcClicked(r)
    \/ CalcWaited(r)
    \/ CalcSettles(r)
    \/ ExtractCounted(r)
    \/ ExtractEvaluated(r)
    \/ ExtractBody(r)
    \/ ExtractHtml(r)
    \/ Route(r)

Next == \E r \in Reqs : Step(r)

Spec == Init /\ [][Next]_vars

SpecConc == InitConc /\ [][Next]_vars

\* what the last call of pickRangeFromText ended with when the extraction
\* starts: there was none, or an earlier request had it read two amounts
LeftSamples == {NoCall, LeftBy(NoCall, <<Whole(300), Whole(150)>>)}

\* a body that passes the validation
BodyOk ==
  [rc |-> Str(Rep("A", RcLen)), etiqueta |-> Str(<<"A">>),
   estado |-> Str(<<"b", "u", "e", "n", "o">>), planta |-> Num(3),
   opt |-> 1]

\* The extraction on its own: request 1 has come through the direct load, the
\* search, the form and the calculation, and the result page shows one of
\* Pages; el.count() of the first anchor is awaited.  Durations are not kept
\* and no timer fires
InitExtract ==
  /\ scope = "extract"
  /\ req = [r \in Reqs |-> IF r = 1 THEN BodyOk ELSE NoBody]
  /\ pc = [r \in Reqs |-> IF r = 1 THEN "race" ELSE "absent"]
  /\ resp = [r \in Reqs |-> NoResp]
  /\ sent = [r \in Reqs |-> 0]
  /\ stalled = [r \in Reqs |-> FALSE]
  /\ sessions = <<[owner |-> 1, open |-> TRUE, contexts |-> 1]>>
  /\ browser = [r \in Reqs |-> IF r = 1 THEN 1 ELSE 0]
  /\ ctx = [r \in Reqs |-> IF r = 1 THEN 1 ELSE 0]
  /\ uses = {<<1, 1>>}
  /\ wk = [r \in Reqs |-> IF r = 1 THEN "extract" ELSE "none"]
  /\ nav = [r \in Reqs |-> IF r = 1 THEN "returned" ELSE "none"]
  /\ page = [r \in Reqs |-> IF r = 1 THEN PageOn ELSE NoPage]
  /\ popup = [r \in Reqs |-> NoPage]
  /\ link = [r \in Reqs |-> 0]
  /\ loads = [r \in Reqs |-> IF r = 1 THEN <<"direct">> ELSE <<>>]
  /\ ret = [r \in Reqs |->
             IF r = 1 THEN [page |-> "page", target |-> TargetOf(PageOn)]
             ELSE NoRet]
  /\ searched = [r \in Reqs |-> IF r = 1 THEN TargetOf(PageOn) ELSE NoTarget]
  /\ now = [r \in Reqs |-> 0]
  /\ due = [r \in Reqs |-> 0]
  /\ navT = [r \in Reqs |-> IF r = 1 THEN "armed" ELSE "off"]
  /\ globT = [r \in Reqs |-> IF r = 1 THEN "armed" ELSE "off"]
  /\ searchBox = [r \in Reqs |-> IF r = 1 THEN "filled" ELSE "none"]
  /\ okSearch = [r \in Reqs |-> IF r = 1 THEN "true" ELSE "none"]
  /\ sugg = [r \in Reqs |->
              IF r = 1 THEN Suggestions(<<Option(T_OptAddress, TRUE)>>, TRUE)
              ELSE NoSugg]
  /\ form = [r \in Reqs |-> IF r = 1 THEN FormDone ELSE NoForm]
  /\ net = [r \in Reqs |-> <<>>]
  /\ \E d \in 1..Len(Pages) :
       dom = [r \in Reqs |-> IF r = 1 THEN d ELSE NoPageYet]
  /\ acc = [r \in Reqs |-> AccStart]
  /\ left \in LeftSamples
  /\ aw = [r \in Reqs |->
             IF r = 1 THEN Awaiting("anchorCount", FALSE) ELSE NoAwait]

NextExtract ==
  \E r \in Reqs :
    \/ ExtractCounted(r)
    \/ ExtractEvaluated(r)
    \/ ExtractBody(r)
    \/ ExtractHtml(r)

SpecExtract == InitExtract /\ [][NextExtract]_vars

\* The search on its own: request 1 has come through the direct load and
\* searchByRC is about to count its input.  Durations are not kept and no
\* timer fires
InitSearch ==
  /\ scope = "search"
  /\ req = [r \in Reqs |-> IF r = 1 THEN BodyOk ELSE NoBody]
  /\ pc = [r \in Reqs |-> IF r = 1 THEN "race" ELSE "absent"]
  /\ resp = [r \in Reqs |-> NoResp]
  /\ sent = [r \in Reqs |-> 0]
  /\ stalled = [r \in Reqs |-> FALSE]
  /\ sessions = <<[owner |-> 1, open |-> TRUE, contexts |-> 1]>>
  /\ browser = [r \in Reqs |-> IF r = 1 THEN 1 ELSE 0]
  /\ ctx = [r \in Reqs |-> IF r = 1 THEN 1 ELSE 0]
  /\ uses = {<<1, 1>>}
  /\ wk = [r \in Reqs |-> IF r = 1 THEN "locate" ELSE "none"]
  /\ nav = [r \in Reqs |-> IF r = 1 THEN "returned" ELSE "none"]
  /\ page = [r \in Reqs |-> IF r = 1 THEN PageOn ELSE NoPage]
  /\ popup = [r \in Reqs |-> NoPage]
  /\ link = [r \in Reqs |-> 0]
  /\ loads = [r \in Reqs |-> IF r = 1 THEN <<"direct">> ELSE <<>>]
  /\ ret = [r \in Reqs |->
             IF r = 1 THEN [page |-> "page", target |-> TargetOf(PageOn)]
             ELSE NoRet]
  /\ searched = [r \in Reqs |-> IF r = 1 THEN TargetOf(PageOn) ELSE NoTarget]
  /\ now = [r \in Reqs |-> 0]
  /\ due = [r \in Reqs |-> 0]
  /\ navT = [r \in Reqs |-> IF r = 1 THEN "armed" ELSE "off"]
  /\ globT = [r \in Reqs |-> IF r = 1 THEN "armed" ELSE "off"]
  /\ searchBox = [r \in Reqs |-> "none"]
  /\ okSearch = [r \in Reqs |-> "none"]
  /\ sugg = [r \in Reqs |-> NoSugg]
  /\ form = [r \in Reqs |-> NoForm]
  /\ net = [r \in Reqs |-> <<>>]
  /\ dom = [r \in Reqs |-> NoPageYet]
  /\ acc = [r \in Reqs |-> AccStart]
  /\ left = NoCall
  /\ aw = [r \in Reqs |-> NoAwait]

NextSearch ==
  \E r \in Reqs :
    \/ SearchLocate(r)
    \/ SearchTyped(r)
    \/ SearchPanel(r)
    \/ SearchCounted(r)
    \/ SearchOptionRead(r)
    \/ SearchChosen(r)
    \/ SearchWaited(r)
    \/ SearchFichaCounted(r)
    \/ SearchVisible(r)
    \/ DiagContent(r)
    \/ DiagSettles(r)

SpecSearch == InitSearch /\ [][NextSearch]_vars

\* " b "
EtiquetaPadded == Str(<<" ", "b", " ">>)

FillBodies ==
  {[BodyOk EXCEPT !.etiqueta = e, !.opt = o] :
     e \in {Str(<<"A">>), EtiquetaPadded, Str(<<"z">>), Str(<<"n~">>),
            Str(<<"SZ">>)},
     o \in 1..Len(Opts)}

\* The attribute filler on its own: request 1 has come through the direct
\* load and the search, and the form shows.  Durations are not kept and no
\* timer fires
InitFill ==
  /\ scope = "fill"
  /\ \E b \in FillBodies : req = [r \in Reqs |-> IF r = 1 THEN b ELSE NoBody]
  /\ pc = [r \in Reqs |-> IF r = 1 THEN "race" ELSE "absent"]
  /\ resp = [r \in Reqs |-> NoResp]
  /\ sent = [r \in Reqs |-> 0]
  /\ stalled = [r \in Reqs |-> FALSE]
  /\ sessions = <<[owner |-> 1, open |-> TRUE, contexts |-> 1]>>
  /\ browser = [r \in Reqs |-> IF r = 1 THEN 1 ELSE 0]
  /\ ctx = [r \in Reqs |-> IF r = 1 THEN 1 ELSE 0]
  /\ uses = {<<1, 1>>}
  /\ wk = [r \in Reqs |-> IF r = 1 THEN "fill" ELSE "none"]
  /\ nav = [r \in Reqs |-> IF r = 1 THEN "returned" ELSE "none"]
  /\ page = [r \in Reqs |-> IF r = 1 THEN PageOn ELSE NoPage]
  /\ popup = [r \in Reqs |-> NoPage]
  /\ link = [r \in Reqs |-> 0]
  /\ loads = [r \in Reqs |-> IF r = 1 THEN <<"direct">> ELSE <<>>]
  /\ ret = [r \in Reqs |->
             IF r = 1 THEN [page |-> "page", target |-> TargetOf(PageOn)]
             ELSE NoRet]
  /\ searched = [r \in Reqs |-> IF r = 1 THEN TargetOf(PageOn) ELSE NoTarget]
  /\ now = [r \in Reqs |-> 0]
  /\ due = [r \in Reqs |-> 0]
  /\ navT = [r \in Reqs |-> IF r = 1 THEN "armed" ELSE "off"]
  /\ globT = [r \in Reqs |-> IF r = 1 THEN "armed" ELSE "off"]
  /\ searchBox = [r \in Reqs |-> IF r = 1 THEN "filled" ELSE "none"]
  /\ okSearch = [r \in Reqs |-> IF r = 1 THEN "true" ELSE "none"]
  /\ sugg = [r \in Reqs |->
              IF r = 1 THEN Suggestions(<<Option(T_OptAddress, TRUE)>>, TRUE)
              ELSE NoSugg]
  /\ \E f \in FormPages, fault \in FillFaults :
       form = [r \in Reqs |->
                 IF r = 1
                 THEN [controls |-> f, fault |-> fault,
                       k |-> NextHelper(req[1], Forms[f], fault, 1), j |-> 1]
                 ELSE NoForm]
  /\ net = [r \in Reqs |-> <<>>]
  /\ dom = [r \in Reqs |-> NoPageYet]
  /\ acc = [r \in Reqs |-> AccStart]
  /\ left = NoCall
  /\ aw = [r \in Reqs |->
             IF r = 1
             THEN Awaiting(HelperOf(req[1], Forms[form[1].controls],
                                    form[1].fault, form[1].k).awaits[1],
                           FALSE)
             ELSE NoAwait]

NextFill ==
  \E r \in Reqs :
    \/ FillAwaited(r)
    \/ CalcCounted(r)
    \/ CalcClicked(r)
    \/ CalcWaited(r)
    \/ CalcSettles(r)

SpecFill == InitFill /\ [][NextFill]_vars

\* The request interception on its own: the handler of request 1 has
\* installed the route of line 338 and is at its race, page.goto of line 147
\* is pending; the page of the session issues requests
InitRoute ==
  /\ scope = "route"
  /\ req = [r \in Reqs |-> IF r = 1 THEN BodyOk ELSE NoBody]
  /\ pc = [r \in Reqs |-> IF r = 1 THEN "race" ELSE "absent"]
  /\ resp = [r \in Reqs |-> NoResp]
  /\ sent = [r \in Reqs |-> 0]
  /\ stalled = [r \in Reqs |-> FALSE]
  /\ sessions = <<[owner |-> 1, open |-> TRUE, contexts |-> 1]>>
  /\ browser = [r \in Reqs |-> IF r = 1 THEN 1 ELSE 0]
  /\ ctx = [r \in Reqs |-> IF r = 1 THEN 1 ELSE 0]
  /\ uses = {<<1, 1>>}
  /\ wk = [r \in Reqs |-> IF r = 1 THEN "ensure" ELSE "none"]
  /\ nav = [r \in Reqs |-> IF r = 1 THEN "goto1" ELSE "none"]
  /\ page = [r \in Reqs |-> IF r = 1 THEN PageBlank ELSE NoPage]
  /\ popup = [r \in Reqs |-> NoPage]
  /\ link = [r \in Reqs |-> 0]
  /\ loads = [r \in Reqs |-> IF r = 1 THEN <<"direct">> ELSE <<>>]
  /\ ret = [r \in Reqs |-> NoRet]
  /\ searched = [r \in Reqs |-> NoTarget]
  /\ now = [r \in Reqs |-> 0]
  /\ due = [r \in Reqs |-> 0]
  /\ navT = [r \in Reqs |-> IF r = 1 THEN "armed" ELSE "off"]
  /\ globT = [r \in Reqs |-> IF r = 1 THEN "armed" ELSE "off"]
  /\ searchBox = [r \in Reqs |-> "none"]
  /\ okSearch = [r \in Reqs |-> "none"]
  /\ sugg = [r \in Reqs |-> NoSugg]
  /\ form = [r \in Reqs |-> NoForm]
  /\ net = [r \in Reqs |-> <<>>]
  /\ dom = [r \in Reqs |-> NoPageYet]
  /\ acc = [r \in Reqs |-> AccStart]
  /\ left = NoCall
  /\ aw = [r \in Reqs |-> NoAwait]

NextRoute == \E r \in Reqs : Route(r)

SpecRoute == InitRoute /\ [][NextRoute]_vars

-----------------------------------------------------------------------------
(* Vocabulary of the properties *)

Range(f) == {f[i] : i \in DOMAIN f}

Count(f, x) == Cardinality({i \in DOMAIN f : f[i] = x})

\* the identifier is a string of 20 characters of A-Z, 0-9
WellFormedRc(v) ==
  /\ v.t = "string"
  /\ Len(v.s) = 20
  /\ \A i \in 1..Len(v.s) : v.s[i] \in UpperAlnum

\* the attribute was not supplied
Missing(v) == v.t \in {"undefined", "null"} \/ (v.t = "string" /\ v.s = <<>>)

MissingOf(b) == {k \in Range(Mandatory) : Missing(b[k])}

Answered(r) == pc[r] = "done"

\* browser processes started for r
SessionsOf(r) == {i \in 1..Len(sessions) : sessions[i].owner = r}

OnTarget(p) == isOnSerpavi(TargetOf(p).url)

\* the direct load has settled and has left no page or frame on SERPAVI
DirectLoadFailed(r) ==
  /\ nav[r] \notin {"none", "newPage", "goto1"}
  /\ loads[r] # <<>>
  /\ ~(loads[r] = <<"direct">> /\ OnTarget(page[r]))

-----------------------------------------------------------------------------
(* C1 *)

\* C1: in every state after the response of a request has been sent, the
\* browser process launched for that request is no longer open.
C1_SessionClosedAfterResponse ==
  \A r \in Reqs :
    Answered(r) => \A i \in SessionsOf(r) : ~sessions[i].open

-----------------------------------------------------------------------------
(* C2 *)

\* C2: a request whose rc is not a string of 20 characters of A-Z, 0-9 is
\* answered with the 400 rejection only, and no browser, context or page is
\* ever created for it.
C2_InvalidRcNeverLaunches ==
  \A r \in Reqs :
    (pc[r] # "absent" /\ ~WellFormedRc(req[r].rc)) =>
      /\ pc[r] \in {"idle", "done"}
      /\ Answered(r) => resp[r] = RespBadRc
      /\ SessionsOf(r) = {}
      /\ browser[r] = 0 /\ ctx[r] = 0 /\ nav[r] = "none"

\* a 20-character rc with a lower-case letter has been rejected
C2_Witness ==
  \E r \in Reqs :
    /\ Answered(r)
    /\ Len(req[r].rc.s) = 20
    /\ ~WellFormedRc(req[r].rc)
    /\ resp[r].status = 400

-----------------------------------------------------------------------------
(* C3 *)

\* C3: a request with a well-formed rc and at least one missing mandatory
\* attribute launches no browser and is answered FALTAN_CAMPOS with a needs
\* list that holds exactly the missing attributes.
C3_NeedsAreExactlyTheMissing ==
  \A r \in Reqs :
    (pc[r] # "absent" /\ WellFormedRc(req[r].rc) /\ MissingOf(req[r]) # {}) =>
      /\ SessionsOf(r) = {} /\ nav[r] = "none"
      /\ Answered(r) =>
           /\ resp[r].status = 200
           /\ resp[r].error = "FALTAN_CAMPOS"
           /\ Range(resp[r].needs) = MissingOf(req[r])

-----------------------------------------------------------------------------
(* C4 *)

\* C4: every request is answered in the end: a request that has been received
\* and not yet answered always has a step or a timer left that can run.
C4_UnansweredCanProceed ==
  \A r \in Reqs :
    pc[r] \in {"absent", "done"} \/ ENABLED Step(r)

-----------------------------------------------------------------------------
(* C5 *)

\* C5: the global deadline races everything that can block a validated
\* request: while its handler waits for anything, the 40 s timer is armed,
\* and once that timer has fired the request has been answered.
C5_DeadlineRacesEveryAwait ==
  \A r \in Reqs :
    /\ pc[r] \in {"launch", "newContext", "route", "race"} => globT[r] = "armed"
    /\ globT[r] = "fired" => Answered(r)

-----------------------------------------------------------------------------
(* C6 *)

\* C6: when navigation resolution fails (the 25 s deadline expired before
\* gotoSerpavi returned, or it returned a surface off the target domain), the
\* answer is a soft failure: status 200, ok=false, error kind unreachable.
C6_UnreachableIsSoftFailure ==
  \A r \in Reqs :
    (/\ Answered(r)
     /\ \/ resp[r].error = ErrUnreachable
        \/ searched[r] # NoTarget /\ ~isOnSerpavi(searched[r].url)) =>
      /\ resp[r].status = 200
      /\ ~resp[r].ok
      /\ resp[r].error \in {"SERPAVI_UNREACHABLE", ErrUnreachable}

-----------------------------------------------------------------------------
(* C7 *)

\* C7 as claimed: when the direct load has left no surface on SERPAVI, the
\* request ends with the unreachable outcome only after the informational
\* page has been asked for.
C7_LandingBeforeUnreachable ==
  \A r \in Reqs :
    (resp[r].error = ErrUnreachable /\ DirectLoadFailed(r)) =>
      "landing" \in Range(loads[r])

\* C7 as amended: once gotoSerpavi has got past its direct check without a
\* surface on SERPAVI, the load that follows the direct one is the load of the
\* informational page: it precedes the click, the retry and every return.
C7_LandingFollowsFailedDirect ==
  \A r \in Reqs :
    (DirectLoadFailed(r) /\ nav[r] # "cookies1") =>
      /\ Len(loads[r]) >= 2
      /\ loads[r][1] = "direct"
      /\ loads[r][2] = "landing"

\* the direct load has used up its 20 s and left no surface on SERPAVI, no
\* click of acceptCookiesIfAny took any time, and the load of the
\* informational page is under way from 20000 ms on, the 25 s timer armed
C7_Witness ==
  \E r \in Reqs :
    /\ nav[r] = "goto2"
    /\ DirectLoadFailed(r)
    /\ loads[r] = <<"direct", "landing">>
    /\ now[r] = GotoTimeout
    /\ navT[r] = "armed"

-----------------------------------------------------------------------------
(* C8 *)

\* C8: when gotoSerpavi finishes after both the direct path and the
\* landing-page path have failed to give a surface on SERPAVI (no anchor, or
\* an anchor whose click led elsewhere), it has loaded the app's address
\* exactly twice: the first attempt and one retry.
C8_RetryAfterBothFail ==
  \A r \in Reqs :
    /\ Count(loads[r], "direct") <= 2
    /\ (/\ nav[r] = "returned"
        /\ "landing" \in Range(loads[r])
        /\ link[r] = 0 \/ ~isOnSerpavi(ret[r].target.url)) =>
         loads[r] = <<"direct", "landing", "direct">>

-----------------------------------------------------------------------------
(* C9 *)

\* C9: searchByRC is only ever invoked on a target whose URL is on SERPAVI,
\* and a request whose navigator returned another surface ends unreachable.
C9_SearchOnlyOnTarget ==
  \A r \in Reqs :
    /\ searched[r] # NoTarget => isOnSerpavi(searched[r].url)
    /\ (Answered(r) /\ nav[r] = "returned" /\ ~isOnSerpavi(ret[r].target.url)) =>
         resp[r].error \in {"SERPAVI_UNREACHABLE", ErrUnreachable}

-----------------------------------------------------------------------------
(* C10 *)

\* the results request r has recorded for the anchors that matched
RecordedAnchors(r) ==
  {i \in 1..NumAnchors :
     i <= Len(acc[r].rs) /\ Pages[dom[r]].regions[i].count # 0}

\* C10: under every interleaving of concurrent requests, a request that
\* passed validation has launched one browser with one context, its handler
\* holds that browser and no other, every step of its pipeline drives the
\* session it launched itself, and what its extraction records for a text is
\* what that text gives on its own, whatever the parsing of another request
\* ended with.
C10_SessionsIsolated ==
  /\ \A r \in Reqs :
       /\ Cardinality(SessionsOf(r)) = (IF browser[r] # 0 THEN 1 ELSE 0)
       /\ browser[r] # 0 => sessions[browser[r]].owner = r
       /\ ctx[r] # 0 => ctx[r] = browser[r]
       /\ pc[r] = "race" => (browser[r] # 0 /\ ctx[r] # 0)
       /\ \A i \in RecordedAnchors(r) :
            acc[r].rs[i] = Extracted[dom[r]].regions[i]
  /\ \A i \in 1..Len(sessions) : sessions[i].contexts <= 1
  /\ \A u \in uses : u[2] # 0 /\ sessions[u[2]].owner = u[1]

\* two requests have gone through their pipelines at once, each driving its
\* own session; both have been answered with a result and the two timers of
\* both have fired after that
C10_Witness ==
  \E r1, r2 \in Reqs :
    /\ r1 # r2
    /\ wk[r1] = "resolved" /\ wk[r2] = "resolved"
    /\ resp[r1].ok /\ resp[r2].ok
    /\ navT[r1] = "fired" /\ navT[r2] = "fired"
    /\ globT[r1] = "fired" /\ globT[r2] = "fired"
    /\ browser[r1] # browser[r2]
    /\ <<r1, ctx[r1]>> \in uses /\ <<r2, ctx[r2]>> \in uses
    /\ RecordedAnchors(r1) # {} /\ RecordedAnchors(r2) # {}

-----------------------------------------------------------------------------
(* C11 *)

\* the steps of `work` after the navigator, in their order
StepsAfterSearch == {"fill", "calc", "extract"}

\* C11: within one request the steps run in the order navigator, search,
\* attribute filler, calculation trigger, extraction, each starting only when
\* the one before it has finished; and once the search has reported a failure
\* none of the filler, the trigger and the extraction runs for that request.
C11_StepsInOrder ==
  [][\A r \in Reqs :
       /\ wk'[r] # wk[r] =>
            /\ wk'[r] = "locate" => (wk[r] = "ensure" /\ nav'[r] = "returned")
            /\ wk'[r] = "search" => wk[r] = "locate"
            /\ wk'[r] = "diag" =>
                 (wk[r] \in {"locate", "search"} /\ okSearch'[r] = "false")
            /\ wk'[r] = "fill" =>
                 (wk[r] \in {"locate", "search"} /\ okSearch'[r] = "true")
            /\ wk'[r] = "calc" => wk[r] = "fill"
            /\ wk'[r] = "extract" => wk[r] = "calc"
       /\ okSearch[r] # "none" => okSearch'[r] = okSearch[r]
       /\ okSearch'[r] = "false" => wk'[r] \notin StepsAfterSearch]_vars

\* a request whose search failed has been answered with the soft failure
\* and its `work` is over
C11_Witness ==
  \E r \in Reqs :
    /\ okSearch[r] = "false"
    /\ wk[r] = "resolved"
    /\ Answered(r)
    /\ resp[r].error = "RC_INPUT_NOT_FOUND_ON_APP"

-----------------------------------------------------------------------------
(* C12 *)

\* C12: the soft failure RC_INPUT_NOT_FOUND_ON_APP is the answer of `work`
\* whenever no search input matched on the surface, and it is never the
\* answer when the input was located and filled.
C12_NotFoundIffNotLocated ==
  \A r \in Reqs :
    /\ (/\ searchBox[r] = "absent"
        /\ wk[r] = "resolved"
        /\ Answered(r)
        /\ resp[r].status = 200) =>
         resp[r].error = "RC_INPUT_NOT_FOUND_ON_APP"
    /\ searchBox[r] = "filled" =>
         resp[r].error # "RC_INPUT_NOT_FOUND_ON_APP"

-----------------------------------------------------------------------------
(* C13 *)

\* the bound of a price per square metre
PerAreaLow == 2
PerAreaHigh == 100

\* x is null or lies within lo..hi
NullOrWithin(x, lo, hi) == x.null \/ (Le(Whole(lo), x) /\ Le(x, Whole(hi)))

\* C13: in every ok result min, max, precio_ref and total are each null or
\* within 100..20000, and psqm is null or within the tighter bound of prices
\* per square metre; no value outside its bound is returned.
C13_ValuesWithinBounds ==
  \A r \in Reqs :
    resp[r].ok =>
      /\ NullOrWithin(resp[r].min, PlausibleLow, PlausibleHigh)
      /\ NullOrWithin(resp[r].max, PlausibleLow, PlausibleHigh)
      /\ NullOrWithin(resp[r].precio_ref, PlausibleLow, PlausibleHigh)
      /\ NullOrWithin(resp[r].total, PlausibleLow, PlausibleHigh)
      /\ NullOrWithin(resp[r].psqm, PerAreaLow, PerAreaHigh)

-----------------------------------------------------------------------------
(* C14 *)

\* C14: in every ok result whose min and max are both known, min <= max,
\* whatever the regions gave to the merge, regions that gave only a min or
\* only a max included.
C14_MinAtMostMax ==
  \A r \in Reqs :
    (resp[r].ok /\ ~resp[r].min.null /\ ~resp[r].max.null) =>
      Le(resp[r].min, resp[r].max)

\* an ok result with both ends, merged from a region that gave only a min
\* and a later one that gave only a max below it
C14_Witness ==
  \E r \in Reqs :
    /\ resp[r].ok
    /\ dom[r] = PageNo(DomMinThenMax)
    /\ Extracted[dom[r]].regions[2].min = Whole(500)
    /\ Extracted[dom[r]].regions[2].max.null
    /\ Extracted[dom[r]].regions[3].min.null
    /\ Extracted[dom[r]].regions[3].max = Whole(300)
    /\ resp[r].min = Whole(300)
    /\ resp[r].max = Whole(500)

-----------------------------------------------------------------------------
(* C15 *)

\* the result x of an extraction carries no monetary value at all
NothingFound(x) == x.min.null /\ x.max.null /\ x.precio_ref.null /\ x.psqm.null

\* the result x of an extraction carries a price per square metre only
OnlyPerArea(x) ==
  x.min.null /\ x.max.null /\ x.precio_ref.null /\ ~x.psqm.null

\* C15: UI_CHANGED is answered only if no monetary value at all (min, max,
\* precio_ref or psqm) comes out of the anchor passes and of the pass over the
\* whole body; when a price per square metre is all that is extracted, the
\* answer of `work` is ok.
C15_FailureOnlyWithoutValues ==
  \A r \in Reqs :
    /\ resp[r].error = "UI_CHANGED" =>
         /\ NothingFound(Extracted[dom[r]].body)
         /\ \A i \in 1..NumAnchors :
              Pages[dom[r]].regions[i].count # 0 =>
                NothingFound(Extracted[dom[r]].regions[i])
    /\ (/\ wk[r] = "resolved"
        /\ resp[r].status = 200
        /\ OnlyPerArea(Extracted[dom[r]].body)) => resp[r].ok

-----------------------------------------------------------------------------
(* C16 *)

\* the text t shows a number with a currency mark: a digit followed, after
\* any white space, by the euro sign or the word euro(s)
HasCurrencyNumber(t) ==
  \E i \in 1..Len(t) : IsDigit(t[i]) /\ CurEnds(LowerOf(t), i + 1) # {}

\* for every page, whether its body shows a number with a currency mark
Marked == Chars([n \in 1..Len(Pages) |-> HasCurrencyNumber(Pages[n].body)])

\* s is a prefix of t
IsPrefix(s, t) == Len(s) <= Len(t) /\ SubSeq(t, 1, Len(s)) = s

\* the request r has the answer `work` returned for a page without any
\* number with a currency mark
UnmarkedPageAnswered(r) ==
  /\ wk[r] = "resolved"
  /\ resp[r].status = 200
  /\ dom[r] # NoPageYet
  /\ ~Marked[dom[r]]

\* C16 as stated: for a result page whose visible text has no number with a
\* currency mark the request ends with UI_CHANGED, and the sample of the
\* answer is not empty and is a prefix of the body text of at most 2000
\* characters.
C16_SampleNeverEmpty ==
  \A r \in Reqs :
    UnmarkedPageAnswered(r) =>
      /\ resp[r].error = "UI_CHANGED"
      /\ resp[r].sample # <<>>
      /\ IsPrefix(resp[r].sample, Pages[dom[r]].body)
      /\ Len(resp[r].sample) <= SampleLimit

\* C16: for a result page whose visible text has no number with a currency
\* mark the request ends with UI_CHANGED, and the sample of the answer is the
\* body text cut after 2000 characters: a prefix of it, whole when the text
\* is shorter, and so empty only when the body text is empty.
C16_SampleIsBodyPrefix ==
  \A r \in Reqs :
    UnmarkedPageAnswered(r) =>
      /\ resp[r].error = "UI_CHANGED"
      /\ IsPrefix(resp[r].sample, Pages[dom[r]].body)
      /\ Len(resp[r].sample) <= SampleLimit
      /\ Len(Pages[dom[r]].body) <= SampleLimit =>
           resp[r].sample = Pages[dom[r]].body
      /\ Len(Pages[dom[r]].body) > SampleLimit =>
           Len(resp[r].sample) = SampleLimit

\* a page without prices whose body is longer than 2000 characters has been
\* answered with a sample cut at 2000
C16_Witness ==
  \E r \in Reqs :
    /\ UnmarkedPageAnswered(r)
    /\ dom[r] = PageNo(DomLong)
    /\ Len(Pages[dom[r]].body) > SampleLimit
    /\ resp[r].error = "UI_CHANGED"
    /\ Len(resp[r].sample) = SampleLimit

-----------------------------------------------------------------------------
(* C17 *)

\* C17: in every ok result total is precio_ref when precio_ref is known, a
\* range beside it or not; otherwise it is max when max is known; otherwise
\* it is min.
C17_TotalPrefersReference ==
  \A r \in Reqs :
    resp[r].ok =>
      resp[r].total =
        IF ~resp[r].precio_ref.null THEN resp[r].precio_ref
        ELSE IF ~resp[r].max.null THEN resp[r].max
        ELSE resp[r].min

\* an ok result with a reference price inside a range, the total being the
\* reference price
C17_Witness ==
  \E r \in Reqs :
    /\ resp[r].ok
    /\ dom[r] = PageNo(DomRefAndRange)
    /\ resp[r].min = Whole(800)
    /\ resp[r].max = Whole(1200)
    /\ resp[r].precio_ref = Whole(1000)
    /\ resp[r].total = Whole(1000)

-----------------------------------------------------------------------------
(* C18 *)

\* the regions, in the order of the anchors, whose result has the field f
Known(rs, f) == {i \in 1..Len(rs) : ~rs[i][f].null}

\* the field f of the first region that has it, null when none has
FirstKnown(rs, f) ==
  IF Known(rs, f) = {} THEN NullV ELSE rs[MinOf(Known(rs, f))][f]

\* the least and the greatest f over the regions that have it
LeastKnown(rs, f) ==
  IF Known(rs, f) = {} THEN NullV
  ELSE rs[CHOOSE i \in Known(rs, f) :
            \A j \in Known(rs, f) : Le(rs[i][f], rs[j][f])][f]

GreatestKnown(rs, f) ==
  IF Known(rs, f) = {} THEN NullV
  ELSE rs[CHOOSE i \in Known(rs, f) :
            \A j \in Known(rs, f) : Le(rs[j][f], rs[i][f])][f]

\* the loop over the anchors of request r has come to its end, and the
\* locals hold what it merged
Merged(r) == acc[r].i = NumAnchors + 1 /\ Len(acc[r].rs) = NumAnchors

\* C18: once the anchors have been gone through in their order, the merged
\* min is the least of the regions' mins, the merged max the greatest of
\* their maxes, and the merged precio_ref and psqm are each the value of the
\* first region that gave one: a later region never overwrites it.
C18_MergeKeepsFirstHit ==
  \A r \in Reqs :
    Merged(r) =>
      /\ acc[r].min = LeastKnown(acc[r].rs, "min")
      /\ acc[r].max = GreatestKnown(acc[r].rs, "max")
      /\ acc[r].precio_ref = FirstKnown(acc[r].rs, "precio_ref")
      /\ acc[r].psqm = FirstKnown(acc[r].rs, "psqm")

-----------------------------------------------------------------------------
(* C19 *)

\* the tokens of the text t that carry a currency mark, by where they start:
\* a whole run of digits, points and commas followed by a mark
TokenStarts(t) ==
  {a \in 1..Len(t) : AmountAt(t, a) /\ (a = 1 \/ ~IsNumCh(t[a - 1]))}

TokenValue(t, a) == eurToNum(Group(t, a))

PlausibleTokens(t) == {a \in TokenStarts(t) : plausible(TokenValue(t, a))}

\* what C19 asks of the result x of the extraction from the text t, in which
\* no phrasing of a range matches
FallbackAsClaimed(t, x) ==
  /\ (\E a, b \in PlausibleTokens(t) : TokenValue(t, a) # TokenValue(t, b)) =>
       /\ plausible(x.min)
       /\ plausible(x.max)
       /\ Lt(x.min, x.max)
  /\ (Cardinality(TokenStarts(t)) = 1 /\ PlausibleTokens(t) # {}) =>
       /\ x.min.null
       /\ \E a \in TokenStarts(t) : x.max = TokenValue(t, a)

\* C19: when no phrasing of a range matches in the text of a region, the min
\* and max taken from its tokens with a currency mark are two plausible
\* values, apart from each other, whenever the text has two such tokens (a
\* token out of the bound, as 50, does not take the place of one within it);
\* and a text with a single token gives it as max and leaves min null.
C19_FallbackScan ==
  \A r \in Reqs :
    Merged(r) =>
      \A i \in 1..NumAnchors :
        (/\ Pages[dom[r]].regions[i].count # 0
         /\ RangeMatch(LowerOf(OneLine(Pages[dom[r]].regions[i].text)))
              = NoGroups) =>
          FallbackAsClaimed(LowerOf(OneLine(Pages[dom[r]].regions[i].text)),
                            acc[r].rs[i])

-----------------------------------------------------------------------------
(* C20 *)

\* what extractRangeAndRef is to give for the text of Scenario A
ScenarioAResult ==
  [min |-> NullV, max |-> NullV, precio_ref |-> Whole(1050), psqm |-> NullV]

\* C20: from the text "Precio de referencia: 1.050,00 EUR" the extraction
\* gives precio_ref = 1050 with min and max null, and the answer of a request
\* whose result page shows that text is ok with precio_ref = 1050 and
\* total = 1050, min and max null.
C20_ScenarioA ==
  \A r \in Reqs :
    (dom[r] # NoPageYet /\ Pages[dom[r]].body = T_ScenarioA) =>
      /\ Extracted[dom[r]].body = ScenarioAResult
      /\ Merged(r) =>
           \A i \in 1..NumAnchors :
             Pages[dom[r]].regions[i].count # 0 =>
               acc[r].rs[i] = ScenarioAResult
      /\ (wk[r] = "resolved" /\ resp[r].status = 200) =>
           /\ resp[r].ok
           /\ resp[r].precio_ref = Whole(1050)
           /\ resp[r].total = Whole(1050)
           /\ resp[r].min.null
           /\ resp[r].max.null

\* the request whose first anchor shows the text of Scenario A has been
\* answered ok with the reference price 1050 as total
C20_Witness ==
  \E r \in Reqs :
    /\ dom[r] = PageNo(DomScenarioA)
    /\ Pages[dom[r]].regions[1] = Region(T_ScenarioA)
    /\ wk[r] = "resolved"
    /\ resp[r].ok
    /\ resp[r].precio_ref = Whole(1050)
    /\ resp[r].total = Whole(1050)

-----------------------------------------------------------------------------
(* C21 *)

\* what extractRangeAndRef is to give for the text of Scenario B
ScenarioBResult ==
  [min |-> Whole(900), max |-> Whole(1100), precio_ref |-> NullV,
   psqm |-> NullV]

\* C21: from the text "entre 900 EUR y 1.100 EUR", which has no reference
\* phrase, the extraction gives min = 900, max = 1100 and precio_ref null,
\* and the answer of a request whose result page shows that text is ok with
\* min = 900, max = 1100, precio_ref null and total = max = 1100.
C21_ScenarioB ==
  \A r \in Reqs :
    (dom[r] # NoPageYet /\ Pages[dom[r]].body = T_ScenarioB) =>
      /\ Extracted[dom[r]].body = ScenarioBResult
      /\ (wk[r] = "resolved" /\ resp[r].status = 200) =>
           /\ resp[r].ok
           /\ resp[r].min = Whole(900)
           /\ resp[r].max = Whole(1100)
           /\ resp[r].precio_ref.null
           /\ resp[r].total = resp[r].max

\* the request whose result page shows the text of Scenario B has been
\* answered ok with the range 900..1100 and its maximum as total
C21_Witness ==
  \E r \in Reqs :
    /\ dom[r] # NoPageYet
    /\ Pages[dom[r]].body = T_ScenarioB
    /\ wk[r] = "resolved"
    /\ resp[r].ok
    /\ resp[r].max = Whole(1100)
    /\ resp[r].total = Whole(1100)

-----------------------------------------------------------------------------
(* C22 *)

NotPoint(c) == c # "."

\* the number a text of digits, points and commas stands for once every point
\* is stripped and the decimal comma is read as the decimal point; null when
\* that is not the writing of a finite number (the empty text converts to 0)
ParsedAsClaimed(s) ==
  LET u == SelectSeq(s, NotPoint)
      cs == {i \in 1..Len(u) : u[i] = ","}
      ds == SelectSeq(u, IsDigit)
  IN IF u = <<>> THEN Whole(0)
     ELSE IF Cardinality(cs) > 1 \/ ds = <<>> THEN NullV
     ELSE IF cs = {} THEN Whole(DigitsVal(ds))
     ELSE Dec(DigitsVal(ds), Len(u) - MinOf(cs))

\* the group of the per-area pattern in the text of region i of page d
\* (the empty text when the pattern does not match)
PerAreaText(d, i) ==
  LET t == LowerOf(OneLine(Pages[d].regions[i].text))
      a == PerAreaGroup(t)
  IN IF a = 0 THEN <<>> ELSE Group(t, a)

\* C22: eurToNum strips every point, reads the decimal comma as the decimal
\* point and gives null when the outcome is not a finite number: the psqm of
\* a region, which is eurToNum of the group of line 100, is that number
\* for every group met; "1.234,56" gives 1234.56 and "950" gives 950.
C22_EurToNum ==
  \A r \in Reqs :
    Merged(r) =>
      \A i \in 1..NumAnchors :
        (Pages[dom[r]].regions[i].count # 0 /\ PerAreaText(dom[r], i) # <<>>)
          => /\ acc[r].rs[i].psqm = ParsedAsClaimed(PerAreaText(dom[r], i))
             /\ PerAreaText(dom[r], i)
                  = <<"1", ".", "2", "3", "4", ",", "5", "6">>
                  => acc[r].rs[i].psqm = Dec(123456, 2)
             /\ PerAreaText(dom[r], i) = <<"9", "5", "0">>
                  => acc[r].rs[i].psqm = Whole(950)

\* the loop has ended on a page whose div shows "1.234,56 EUR/m^2", with the
\* psqm 1234.56 for it
C22_Witness ==
  \E r \in Reqs :
    /\ Merged(r)
    /\ Pages[dom[r]].regions[4] = Region(T_Num1234)
    /\ acc[r].rs[4].psqm = Dec(123456, 2)

-----------------------------------------------------------------------------
(* C23 *)

\* v when 100 <= v <= 20000, null otherwise
Retained(v) ==
  IF ~v.null /\ Le(Whole(100), v) /\ Le(v, Whole(20000)) THEN v ELSE NullV

\* the lower and the upper end of a parsed pair, as the sanitizer orders it
LowerEnd(rng) ==
  IF ~rng.min.null /\ ~rng.max.null /\ Lt(rng.max, rng.min) THEN rng.max
  ELSE rng.min
UpperEnd(rng) ==
  IF ~rng.min.null /\ ~rng.max.null /\ Lt(rng.max, rng.min) THEN rng.min
  ELSE rng.max

\* the values parsed from the text t in one line, before sanitizeRange
ParsedRange(t) == RangeOf(t, RangeMatch(t), pickRangeFromText(t))
ParsedRef(t) == GroupValue(t, RefGroup(t))

\* the result res keeps of the values parsed from t those within the bounds
RetainsPlausible(t, res) ==
  /\ res.min = Retained(LowerEnd(ParsedRange(t)))
  /\ res.max = Retained(UpperEnd(ParsedRange(t)))
  /\ res.precio_ref = Retained(ParsedRef(t))
  /\ \A f \in {"min", "max", "precio_ref"} :
       /\ res[f] # Whole(3)
       /\ res[f] # Whole(25000)

\* C23: of the values parsed from a region, each of min, max and precio_ref
\* is kept exactly when it lies in 100..20000 and is null otherwise: 3 and
\* 25000 are discarded, 950 is kept.
C23_PlausibleKept ==
  \A r \in Reqs :
    Merged(r) =>
      \A i \in 1..NumAnchors :
        Pages[dom[r]].regions[i].count # 0 =>
          RetainsPlausible(LowerOf(OneLine(Pages[dom[r]].regions[i].text)),
                           acc[r].rs[i])

\* the loop has ended on a page whose div shows a reference price of 3 and
\* the range 950 to 25000: 950 alone is in the result of the div
C23_Witness ==
  \E r \in Reqs :
    /\ Merged(r)
    /\ Pages[dom[r]].regions[4] = Region(T_PlausA)
    /\ ParsedRef(LowerOf(T_PlausA)) = Whole(3)
    /\ ParsedRange(LowerOf(T_PlausA)).max = Whole(25000)
    /\ acc[r].rs[4].min = Whole(950)
    /\ acc[r].rs[4].max.null
    /\ acc[r].rs[4].precio_ref.null

-----------------------------------------------------------------------------
(* C24 *)

\* the result res of a region has the pair parsed from t in order
InOrder(t, res) ==
  /\ (~res.min.null /\ ~res.max.null) => Le(res.min, res.max)
  /\ (/\ ParsedRange(t).min = Whole(1200)
      /\ ParsedRange(t).max = Whole(900))
       => (res.min = Whole(900) /\ res.max = Whole(1200))

\* C24: sanitizeRange exchanges min and max when both are known and
\* min > max, so the result of a region never has min > max; the parsed pair
\* min = 1200, max = 900 comes out as min = 900, max = 1200.
C24_SwapsInverted ==
  \A r \in Reqs :
    Merged(r) =>
      \A i \in 1..NumAnchors :
        Pages[dom[r]].regions[i].count # 0 =>
          InOrder(LowerOf(OneLine(Pages[dom[r]].regions[i].text)),
                  acc[r].rs[i])

\* the loop has ended on a page whose div shows "entre 1.200 EUR y 900 EUR":
\* parsed as min 1200 and max 900, in the result as 900 and 1200
C24_Witness ==
  \E r \in Reqs :
    /\ Merged(r)
    /\ Pages[dom[r]].regions[4] = Region(T_Swap)
    /\ ParsedRange(LowerOf(T_Swap)) = [min |-> Whole(1200), max |-> Whole(900)]
    /\ acc[r].rs[4].min = Whole(900)
    /\ acc[r].rs[4].max = Whole(1200)

-----------------------------------------------------------------------------
(* C25 *)

\* the anchors of page d that matched
MatchedAnchors(d) == {i \in 1..NumAnchors : Pages[d].regions[i].count # 0}

\* C25: extractRangeAndRef gives the same min, max, precio_ref and psqm each
\* time it is applied to a text: two anchors of a page that show the same
\* text have the same result, whatever texts were extracted before and
\* between them and whatever the calls of earlier requests ended with, and
\* that result is the one the text has when it is the first to be extracted.
C25_SameTextSameResult ==
  \A r \in Reqs :
    Merged(r) =>
      \A i \in MatchedAnchors(dom[r]) :
        /\ acc[r].rs[i] = extractRangeAndRef(Pages[dom[r]].regions[i].text)
        /\ \A j \in MatchedAnchors(dom[r]) :
             Pages[dom[r]].regions[i].text = Pages[dom[r]].regions[j].text
               => acc[r].rs[i] = acc[r].rs[j]

\* the loop has ended on a page that shows one text under its anchors 1, 3
\* and 5 and other texts under 2 and 4, with one result for the three;
\* pickRangeFromText was called for the anchors, the last call ending with
\* amounts in its array
C25_Witness ==
  \E r \in Reqs :
    /\ Merged(r)
    /\ dom[r] = PageNo(DomRepeatTokens)
    /\ Pages[dom[r]].regions[1].text = Pages[dom[r]].regions[5].text
    /\ Pages[dom[r]].regions[1].text # Pages[dom[r]].regions[2].text
    /\ acc[r].rs[1] # acc[r].rs[2]
    /\ acc[r].rs[2] # acc[r].rs[4]
    /\ acc[r].rs[1] = acc[r].rs[3]
    /\ acc[r].rs[1] = acc[r].rs[5]
    /\ left.nums # <<>>
    /\ left # LeftBy(NoCall, <<Whole(300), Whole(150)>>)

-----------------------------------------------------------------------------
(* C26 *)

\* the error kinds of the results `work` returns with ok = false
SoftKinds == {"RC_INPUT_NOT_FOUND_ON_APP", "UI_CHANGED"}

\* the errors of a rejection: a throw inside `work` and the two timers
FaultKinds == {ErrThrown, ErrUnreachable, ErrTimeout}

\* C26: a soft failure of the pipeline (search input not found, layout
\* changed) is answered with status 200, ok = false and its error kind, never
\* with an error status; when `work` has returned without ok and the answer
\* is not that of the global timer, the answer is that soft failure; a
\* thrown fault is answered with status 500, and status 400 is the answer
\* to a rejected identifier and to nothing else.
C26_SoftFailuresAre200 ==
  \A r \in Reqs :
    /\ resp[r].error \in SoftKinds => (resp[r].status = 200 /\ ~resp[r].ok)
    /\ (/\ wk[r] = "resolved"
        /\ sent[r] > 0
        /\ ~resp[r].ok
        /\ resp[r].error # ErrTimeout)
         => (resp[r].status = 200 /\ resp[r].error \in SoftKinds)
    /\ resp[r].error \in FaultKinds => resp[r].status = 500
    /\ resp[r].status = 400 <=> (sent[r] > 0 /\ ~RcAccepted(req[r].rc))

\* searchByRC returned false, `work` returned the soft failure and it was
\* answered with status 200
C26_Witness ==
  \E r \in Reqs :
    /\ okSearch[r] = "false"
    /\ wk[r] = "resolved"
    /\ sent[r] = 1
    /\ resp[r].status = 200
    /\ ~resp[r].ok
    /\ resp[r].error = "RC_INPUT_NOT_FOUND_ON_APP"

-----------------------------------------------------------------------------
(* C27 *)

\* the anchor of the landing page has been clicked for r and no page was
\* spawned: the step of lines 157-160 is pending
ClickedSameTab(r) == nav[r] = "click" /\ popup[r] = NoPage

\* C27: when the anchor of the landing page is clicked and no secondary page
\* is spawned, gotoSerpavi goes on with the same page as soon as the click
\* has completed, that is within the timeout of the click, and so is never
\* still at that step when the 25 s timer of ensureSerpaviContext fires.
C27_SameTabProceedsAfterClick ==
  \A r \in Reqs :
    ClickedSameTab(r) =>
      /\ due[r] - now[r] <= LinkClickTimeout
      /\ navT[r] # "fired"

-----------------------------------------------------------------------------
(* C28 *)

\* the 40 s timer has fired and its answer has been sent for r
TimedOut(r) == globT[r] = "fired" /\ resp[r].error = ErrTimeout

\* the position of the pipeline of r: of gotoSerpavi and of `work`
Position(r) == <<nav[r], wk[r]>>

\* C28: once the answer of the global timer has been sent for a request, the
\* step of its pipeline that was in progress may run to its end, but no
\* further step is started: the pipeline does not move on to another
\* pending await.
C28_NoStepAfterTimeout ==
  [][\A r \in Reqs :
       (TimedOut(r) /\ Pending(r) /\ Position(r)' # Position(r))
         => ~Pending(r)']_vars

-----------------------------------------------------------------------------
(* C29 *)

\* how far gotoSerpavi has come: the retry of line 169 stands where the
\* click of lines 157-160 would
NavRank(p) ==
  CASE p = "none" -> 0
    [] p = "newPage" -> 1
    [] p = "goto1" -> 2
    [] p = "cookies1" -> 3
    [] p = "goto2" -> 4
    [] p = "cookies2" -> 5
    [] p = "linkCount" -> 6
    [] p \in {"click", "goto3"} -> 7
    [] p \in {"waitLoad", "cookies4"} -> 8
    [] p = "cookies3" -> 9
    [] p \in {"returned", "threw"} -> 10

\* how far `work` has come
WorkRank(p) ==
  CASE p = "none" -> 0
    [] p = "ensure" -> 1
    [] p = "locate" -> 2
    [] p = "search" -> 3
    [] p \in {"diag", "fill"} -> 4
    [] p = "calc" -> 5
    [] p = "extract" -> 6
    [] p \in {"resolved", "rejected"} -> 7

\* C29: within a request gotoSerpavi is entered once and only moves forward:
\* it loads the root address of the application at most twice and the
\* landing page at most once, and loads nothing once it has returned; and
\* `work` only moves forward too, so the search, the calculation and the
\* extraction are each attempted at most once, the anchors of the extraction
\* being gone through once.
C29_BoundedAttempts ==
  [][\A r \in Reqs :
       /\ Count(loads'[r], "direct") <= 2
       /\ Count(loads'[r], "landing") <= 1
       /\ nav[r] = "returned" => loads'[r] = loads[r]
       /\ nav'[r] # nav[r] => NavRank(nav'[r]) > NavRank(nav[r])
       /\ wk'[r] # wk[r] => WorkRank(wk'[r]) > WorkRank(wk[r])
       /\ (wk[r] = "extract" /\ wk'[r] = "extract") => acc'[r].i >= acc[r].i
    ]_vars

\* a request that used the whole budget of the navigator, two loads of the
\* root address around one of the landing page, and was then resolved
C29_Witness ==
  \E r \in Reqs :
    /\ loads[r] = <<"direct", "landing", "direct">>
    /\ nav[r] = "returned"
    /\ wk[r] = "resolved"
    /\ resp[r].ok

-----------------------------------------------------------------------------
(* C30 *)

\* searchByRC has come past the options of request r
Picked(r) == sugg[r] # NoSugg

\* the options that are inspected when the list renders: the first five
Inspectable(list) ==
  {i \in 1..Len(list) : i <= 5}

\* of these, the ones whose text does not match the sentinel
Acceptable(list) ==
  {i \in Inspectable(list) : ~IsSentinel(list[i].text)}

\* C30: when options render, no option after the fifth is inspected, no
\* option whose text matches "no se han encontrado" is clicked, at most one
\* option is clicked, and it is the first of the inspected options whose
\* text does not match; when no option renders nothing is clicked and Enter
\* is pressed.
C30_SuggestionHandling ==
  \A r \in Reqs :
    Picked(r) =>
      /\ sugg[r].inspected <= 5
      /\ Len(sugg[r].clicked) <= 1
      /\ \A k \in 1..Len(sugg[r].clicked) :
           /\ sugg[r].clicked[k] \in Inspectable(sugg[r].list)
           /\ ~IsSentinel(sugg[r].list[sugg[r].clicked[k]].text)
           /\ sugg[r].clicked[k] = MinOf(Acceptable(sugg[r].list))
      /\ sugg[r].list = <<>> =>
           (sugg[r].clicked = <<>> /\ sugg[r].enters = 1)

-----------------------------------------------------------------------------
(* C31 *)

\* the filler of r has run: it met a form and no call of it is pending
Ran(r) == form[r].controls # 0 /\ form[r].j = 0

\* what the filler of r did: the calls it made, the number of steps that
\* returned, and whether one threw
Filled(r) == FormRun(req[r], Forms[form[r].controls], form[r].fault)

\* the filler of r went through every step and `work` went on to the
\* trigger: it did not stop at one of its lines
FilledThrough(r) ==
  /\ Filled(r).at = NumControls
  /\ ~Filled(r).threw
  /\ form[r].k = 0

\* C31: attribute filling is best-effort.  Whatever controls the page lacks
\* and whichever call fails while a control is located or set, the filler
\* goes through all its steps, `work` goes on to the calculation trigger and
\* the request is not answered with a failure because of it.
C31_FillIsBestEffort ==
  \A r \in Reqs : Ran(r) => FilledThrough(r)

-----------------------------------------------------------------------------
(* C32 *)

\* the addresses explored that the tracking pattern matches: one holds
\* "Cook", one "GTM", one "analytics"; "analytic" alone is not matched
TrackingUrls == {U_Cookies, U_Gtm, U_Analytics}

\* the request e is heavy media or tracking
Blocked(e) ==
  e.type \in {"image", "font", "media"} \/ e.url \in TrackingUrls

\* C32: for every request of the session the handler of the route takes
\* exactly one decision: abort when the resource type is image, font or media
\* or the address matches the tracking pattern, continue otherwise.  No
\* request gets a second call (an aborted one is not retried), and a request
\* that is neither heavy media nor tracking is not aborted.
C32_OneDecisionPerRequest ==
  \A r \in Reqs : \A i \in 1..Len(net[r]) :
    /\ Len(net[r][i].calls) = 1
    /\ Blocked(net[r][i]) => net[r][i].calls = <<"abort">>
    /\ ~Blocked(net[r][i]) => net[r][i].calls = <<"continue">>

\* a script from a tracking address was aborted and then the script of the
\* app went through
C32_Witness ==
  /\ Len(net[1]) = 2
  /\ net[1][1] = [type |-> "script", url |-> U_Gtm, calls |-> <<"abort">>]
  /\ net[1][2] = [type |-> "script", url |-> U_App, calls |-> <<"continue">>]

-----------------------------------------------------------------------------
(* C33 *)

\* the 40 s timer fired while `work` was pending and the request is answered:
\* the answer is that of the timer
AnsweredByTimer(r) ==
  /\ globT[r] = "fired"
  /\ sent[r] = 1
  /\ wk[r] \notin {"resolved", "rejected"}

\* C33: when the global timer fires before the pipeline completes, the
\* request is answered by the timeout branch of the handler, with status 504
\* and the error "timeout", and not by the generic envelope of status 500.
C33_TimeoutIs504 ==
  \A r \in Reqs :
    AnsweredByTimer(r) =>
      (resp[r].status = 504 /\ resp[r].error = "timeout")

-----------------------------------------------------------------------------
(* C34 *)

\* the answer of r and the position of its handler
AnswerOf(r) == <<resp[r], sent[r], pc[r]>>

\* C34: at most one response is sent for a request.  Once it is sent,
\* whatever settles later (the pipeline after the answer of the timer, a
\* timer after the answer of the pipeline) sends nothing, leaves the
\* response as it is and does not bring the handler back from its end.
C34_SingleResponse ==
  [][\A r \in Reqs :
       /\ sent'[r] <= 1
       /\ sent[r] = 1 => AnswerOf(r)' = AnswerOf(r)]_vars

\* the request was answered by the global timer and its pipeline returned a
\* result afterwards
C34_Witness ==
  \E r \in Reqs :
    /\ globT[r] = "fired"
    /\ resp[r].error = ErrTimeout
    /\ wk[r] = "resolved"
    /\ sent[r] = 1

-----------------------------------------------------------------------------
(* C35 *)

\* the calls the filler of r made on the group of the optional attribute k
CallsOnGroup(r, k) ==
  {i \in 1..Len(Filled(r).calls) : Filled(r).calls[i].ctl = NumFields + k}

\* C35: for an optional yes/no attribute that the request does not carry,
\* the filler makes no call on the corresponding group: neither its
\* affirmative nor its negative radio is selected.
C35_AbsentFlagUntouched ==
  \A r \in Reqs :
    Ran(r) =>
      \A k \in 1..Len(FlagNames) :
        Flag(req[r], FlagNames[k]) = Undef => CallsOnGroup(r, k) = {}

-----------------------------------------------------------------------------
(* C36 *)

\* no anchor of the page d matches: the values come from the whole body
BodyOnly(d) ==
  \A i \in 1..NumAnchors : Pages[d].regions[i] = Absent

\* C36: every ok result carries a total that is not null and at least one
\* value that is not null among min, max and precio_ref, whatever the
\* regions of the result page gave.
C36_OkCarriesPrice ==
  \A r \in Reqs :
    resp[r].ok =>
      /\ ~resp[r].total.null
      /\ \/ ~resp[r].min.null
         \/ ~resp[r].max.null
         \/ ~resp[r].precio_ref.null

\* an ok result read from the whole body, with max as its only value and as
\* its total
C36_Witness ==
  \E r \in Reqs :
    /\ resp[r].ok
    /\ BodyOnly(dom[r])
    /\ resp[r].min.null
    /\ resp[r].precio_ref.null
    /\ ~resp[r].max.null
    /\ resp[r].total = resp[r].max

====
